---- MODULE Spec2Model ----
(***************************************************************************)
(* State-machine model of OpenId4VcIssuerService                            *)
(* (packages/openid4vc/src/openid4vc-issuer/OpenId4VcIssuerService.ts):     *)
(* the issuance session lifecycle, the stateless c_nonce subsystem and the  *)
(* credential response protocol.                                            *)
(*                                                                          *)
(* One invocation of createCredentialResponse is a process p with a program *)
(* counter; its steps are the stretches of code between suspension points   *)
(* (awaits) that read or write the shared repositories, the clock or the    *)
(* event emitter.                                                           *)
(***************************************************************************)
EXTENDS Naturals, Sequences, FiniteSets, TLC

\* ------------------------------------------------------------------------
\* Bounds of the model
\* ------------------------------------------------------------------------
MaxOffered == 2
MaxProofs == 2
MaxTime == 2
MaxEvents == 6
MaxMessages == 3
MaxServers == 2

\* ------------------------------------------------------------------------
\* Session states (OpenId4VcIssuanceSessionState) and their order
\* ------------------------------------------------------------------------
OfferCreated == "OfferCreated"
OfferUriRetrieved == "OfferUriRetrieved"
AccessTokenCreated == "AccessTokenCreated"
CredentialRequestReceived == "CredentialRequestReceived"
CredentialsPartiallyIssued == "CredentialsPartiallyIssued"
Completed == "Completed"
Error == "Error"
NoState == "null"

StateOrder ==
  <<OfferCreated, OfferUriRetrieved, AccessTokenCreated, CredentialRequestReceived,
    CredentialsPartiallyIssued, Completed>>

StateRank(st) == CHOOSE i \in 0..Len(StateOrder) :
                   IF \E k \in 1..Len(StateOrder) : StateOrder[k] = st
                   THEN i > 0 /\ StateOrder[i] = st
                   ELSE i = 0

\* The states createCredentialResponse accepts (assertState argument).
CredentialResponseAllowedStatesWithCompleted ==
  {OfferUriRetrieved, AccessTokenCreated, CredentialRequestReceived,
   CredentialsPartiallyIssued, Completed}

CredentialResponseAllowedStates ==
  {OfferUriRetrieved, AccessTokenCreated, CredentialRequestReceived,
   CredentialsPartiallyIssued}

\* ------------------------------------------------------------------------
\* Issuers, keys, credential configurations, formats
\* ------------------------------------------------------------------------
Issuers == {"i1"}
InitialFingerprint == [i \in Issuers |-> "k1"]

\* The keys wallet.createKey hands out, in the order of their creation
KeyList == <<"k1", "k2", "k3">>
KeyPosition(key) == CHOOSE k \in 1..Len(KeyList) : KeyList[k] = key
BaseUrl == "https://issuer"

\* joinUriParts(config.baseUrl, [issuerRecord.issuerId])
IssuerUrl(issuerId) == <<BaseUrl, issuerId>>

ConfigIdList == <<"c1", "c2", "c3">>
ConfigIds == {ConfigIdList[k] : k \in 1..Len(ConfigIdList)}
ConfigPosition(id) == CHOOSE k \in 1..Len(ConfigIdList) : ConfigIdList[k] = id

FormatSdJwtVc == "vc+sd-jwt"
FormatMsoMdoc == "mso_mdoc"
FormatJwtVcJson == "jwt_vc_json"
FormatJwtVcJsonLd == "jwt_vc_json-ld"
FormatLdpVc == "ldp_vc"
NoFormat == "undefined"
RequestFormats == {FormatSdJwtVc, FormatMsoMdoc, FormatJwtVcJson, FormatJwtVcJsonLd, FormatLdpVc}
RequestTypes == {"T1", "T2"}

\* ClaimFormat values a mapper can put in its sign options
ClaimJwtVc == "jwt_vc"
ClaimLdpVc == "ldp_vc"
ClaimSdJwtVc == "vc+sd-jwt"
ClaimMsoMdoc == "mso_mdoc"
ClaimOther == "other"
ClaimFormats == {ClaimJwtVc, ClaimLdpVc, ClaimSdJwtVc, ClaimMsoMdoc, ClaimOther}

\* issuerRecord.credentialConfigurationsSupported: id -> descriptor
CredentialConfigurationsSupported ==
  [c \in ConfigIds |->
     CASE c = "c1" -> [format |-> FormatSdJwtVc, type |-> "T1"]
       [] c = "c2" -> [format |-> FormatMsoMdoc, type |-> "T1"]
       [] OTHER    -> [format |-> FormatJwtVcJson, type |-> "T1"]]

\* ------------------------------------------------------------------------
\* Nonces: signed, self-contained tokens
\* ------------------------------------------------------------------------
CNonceTyp == "credo+cnonce"
CNonceExpiresInSeconds == 1
NoNonce == [iss |-> <<"", "">>, exp |-> 0, typ |-> "none", kid |-> "", sig |-> ""]
ForgedNonces ==
  {[iss |-> IssuerUrl(i), exp |-> MaxTime + CNonceExpiresInSeconds, typ |-> CNonceTyp,
    kid |-> InitialFingerprint[i], sig |-> "attacker"] : i \in Issuers}

\* ------------------------------------------------------------------------
\* Errors, named by what the code throws
\* ------------------------------------------------------------------------
NoError == "none"
ErrIllegalSessionState == "CredoError: session record is in invalid state"
ErrCredentialIdentifier == "invalid_credential_request: Using unsupported 'credential_identifier'"
ErrUnsupportedCredentialFormat == "unsupported_credential_format"
ErrMissingProof == "invalid_proof: Missing required proof(s) in credential request"
ErrMissingNonceInProof == "invalid_proof: Missing nonce in proof(s) in credential request"
ErrInconsistentNonce == "invalid_proof: Not all nonce values in proofs are equal"
ErrInvalidNonce == "invalid_nonce: Invalid nonce in credential request"
ErrProofVerification == "proof jwt verification failed"
ErrCredentialRequestDenied == "credential_request_denied"
ErrHolderBindingMethod == "CredoError: Only 'jwk' and 'did' based holder binding is supported"
ErrMapperCount == "CredoError: mapper returned n to be signed, while only m holder binding entries were provided"
ErrInvalidFormat == "CredoError: Invalid credential format returned by sign options"
ErrVctMismatch == "CredoError: vct values do not match"
ErrDoctypeMismatch == "CredoError: doctype values do not match"
ErrUnsupportedSignFormat == "CredoError: Unsupported credential format"
ErrSigner == "signer failed"
ErrCreateNonce == "createJwsCompact failed"
ErrMissingGrantConfig == "CredoError: Authorization Config or Pre-Authorized Config must be provided."
ErrDuplicateOffered == "CredoError: All offered credentials must have unique ids."
ErrMessageSending == "MessageSendingError: Message is undeliverable to connection"
ErrRepositoryUpdate == "StorageError: update of the issuance session record failed"
ErrRecordNotFound == "RecordNotFoundError"


\* ------------------------------------------------------------------------
\* Small helpers for arrays
\* ------------------------------------------------------------------------
\* Array.prototype.includes
Includes(arr, x) == \E k \in 1..Len(arr) : arr[k] = x

Elements(arr) == {arr[k] : k \in 1..Len(arr)}

NoDuplicates(arr) == \A j, k \in 1..Len(arr) : arr[j] = arr[k] => j = k

SeqsUpTo(S, n) == UNION {[1..k -> S] : k \in 0..n}

\* ------------------------------------------------------------------------
\* State
\* ------------------------------------------------------------------------
VARIABLES
  issuers,      \* issuer repository: issuerId -> OpenId4VcIssuerRecord
  sessions,     \* issuance session repository: sequence of persisted records, id = index
  events,       \* events emitted on the event emitter, in emission order
  now,          \* the clock (seconds)
  issuedLog,    \* per session: configuration ids returned in successful responses, in order
  offerResult,  \* the last createCredentialOffer as the host sees it: its options and
                \* its outcome, until the host next acts on a session
  call,         \* per process: position and locals of its createCredentialResponse
  result,       \* per process: outcome of its last createCredentialResponse
  basicMessages,  \* basic message repository: the records created, id = index
  basicResult,    \* the basic messages call in progress or returned last
  metadataCall    \* the last getIssuerMetadata: its arguments, the issuer record's
                  \* authorization servers, the fetches it made and its outcome

basicVars == <<basicMessages, basicResult>>
issuerVars == <<issuers, sessions, events, now, issuedLog, offerResult, call, result,
               metadataCall>>
vars == <<issuers, sessions, events, now, issuedLog, offerResult, call, result,
         basicMessages, basicResult, metadataCall>>

Procs == {"p1", "p2"}
SeqProcs == {"p1"}

\* The ids of the records the issuance session repository of the model can hold
SessionSlots == {1}

NoRecord == [issuerId |-> "", state |-> NoState, offer |-> <<>>, issuedCredentials |-> <<>>]
NoIssuer == [issuerId |-> "", accessTokenPublicKeyFingerprint |-> "", updatedAt |-> 0]

\* An OpenId4VcIssuerRecord: its id, the fingerprint of its signing key and the
\* time the repository last wrote it
IssuerRecord(issuerId, fingerprint, updatedAt) ==
  [issuerId |-> issuerId, accessTokenPublicKeyFingerprint |-> fingerprint,
   updatedAt |-> updatedAt]
NoRequestFormat == [format |-> NoFormat, type |-> ""]
NoSigned == [credentialConfigurationId |-> "", credentials |-> 0]

IdleCall ==
  [pc |-> "idle", sid |-> 0, rec |-> NoRecord, issuer |-> NoIssuer,
   format |-> NoRequestFormat, shape |-> "none", nProofs |-> 0, idx |-> 0,
   previousNonce |-> NoNonce, givenNonce |-> NoNonce, usedNonce |-> NoNonce,
   proofSigners |-> <<>>,
   signed |-> NoSigned, cNonce |-> NoNonce, previousState |-> NoState]

NoResult ==
  [status |-> "none", sid |-> 0, error |-> NoError, cNonce |-> NoNonce,
   cNonceExpiresInSeconds |-> 0,
   hasCredential |-> FALSE, hasCredentials |-> FALSE, nCredentials |-> 0,
   credentialConfigurationId |-> "", nProofs |-> 0,
   requestFormat |-> NoRequestFormat, proofNonce |-> NoNonce,
   credentialIdentifier |-> FALSE, format |-> "", payloads |-> <<>>,
   unsupportedSigner |-> FALSE, credentials |-> <<>>, signFormat |-> "",
   recordState |-> NoState, recordIssued |-> <<>>,
   mintedN |-> 0, mapperInvoked |-> FALSE, payloadN |-> 0, signedN |-> 0]

NoOfferResult ==
  [status |-> "none", error |-> NoError, offeredCredentials |-> <<>>,
   preAuthorizedCodeFlowConfig |-> FALSE, authorizationCodeFlowConfig |-> FALSE]

NoMetadataCall ==
  [status |-> "none", error |-> NoError, caller |-> "", flag |-> "absent",
   authorizationServerConfigs |-> [defined |-> FALSE, servers |-> <<>>],
   fetched |-> <<>>, authorization_servers |-> <<>>, authorizationServers |-> <<>>]
NoBasicMessage == [content |-> "", stored |-> FALSE]
NoBasicResult ==
  [op |-> "none", status |-> "none", error |-> NoError, id |-> 0,
   message |-> "", associatedRecord |-> 0, record |-> NoBasicMessage]

InFlight == {p \in Procs : call[p].pc # "idle"}
AllIdle == InFlight = {}

\* Room in the bounded event log for n more events besides those of the calls in flight.
EventRoom(n) == Len(events) + n + 2 * Cardinality(InFlight) <= MaxEvents

Init ==
  /\ issuers = [i \in Issuers |-> IssuerRecord(i, InitialFingerprint[i], 0)]
  /\ sessions = <<>>
  /\ events = <<>>
  /\ now = 0
  /\ issuedLog = <<>>
  /\ offerResult = NoOfferResult
  /\ call = [p \in Procs |-> IdleCall]
  /\ result = [p \in Procs |-> NoResult]
  /\ basicMessages = <<>>
  /\ basicResult = NoBasicResult
  /\ metadataCall = NoMetadataCall

StateChangedEventWithoutPrevious(sid, rec, previousState) ==
  [sid |-> sid, state |-> rec.state, issuedCredentials |-> rec.issuedCredentials,
   previousState |-> rec.state]

\* emitStateChangedEvent: the payload holds a clone of the record and the previous state
StateChangedEvent(sid, rec, previousState) ==
  [sid |-> sid, state |-> rec.state, issuedCredentials |-> rec.issuedCredentials,
   previousState |-> previousState]

\* ------------------------------------------------------------------------
\* createCredentialOffer
\* ------------------------------------------------------------------------
OfferOutcomeWithoutGrantCheck(offeredCredentials, preAuthorizedCodeFlowConfig, authorizationCodeFlowConfig) ==
  IF Cardinality(Elements(offeredCredentials)) # Len(offeredCredentials)
  THEN ErrDuplicateOffered
  ELSE NoError

OfferOutcomeWithoutUniqueness(offeredCredentials, preAuthorizedCodeFlowConfig, authorizationCodeFlowConfig) ==
  IF ~preAuthorizedCodeFlowConfig /\ ~authorizationCodeFlowConfig THEN ErrMissingGrantConfig
  ELSE NoError

\* The two checks of createCredentialOffer in the order the code makes them: the
\* grant configs (line 99) before the uniqueness of the offered ids (line 106)
OfferOutcome(offeredCredentials, preAuthorizedCodeFlowConfig, authorizationCodeFlowConfig) ==
  IF ~preAuthorizedCodeFlowConfig /\ ~authorizationCodeFlowConfig THEN ErrMissingGrantConfig
  ELSE IF Cardinality(Elements(offeredCredentials)) # Len(offeredCredentials)
       THEN ErrDuplicateOffered
       ELSE NoError

\* The lists of configuration ids a host offers: drawn in ascending order of id,
\* repetitions included
OfferedCredentialLists ==
  {ids \in SeqsUpTo(ConfigIds, MaxOffered) :
     \A j, k \in 1..Len(ids) : j < k => ConfigPosition(ids[j]) <= ConfigPosition(ids[k])}

CreateCredentialOffer ==
  \E issuerId \in Issuers, offeredCredentials \in OfferedCredentialLists,
     preAuth \in BOOLEAN, authCode \in BOOLEAN :
    LET outcome == OfferOutcome(offeredCredentials, preAuth, authCode)
        issuanceSession == [issuerId |-> issuerId, state |-> OfferCreated,
                            offer |-> offeredCredentials, issuedCredentials |-> <<>>]
    IN /\ AllIdle
       /\ Len(sessions) + 1 \in SessionSlots
       /\ EventRoom(1)
       /\ offerResult' = [status |-> IF outcome = NoError THEN "created" ELSE "error",
                          error |-> outcome,
                          offeredCredentials |-> offeredCredentials,
                          preAuthorizedCodeFlowConfig |-> preAuth,
                          authorizationCodeFlowConfig |-> authCode]
       /\ IF outcome = NoError
          THEN /\ sessions' = Append(sessions, issuanceSession)
               /\ issuedLog' = Append(issuedLog, <<>>)
               /\ events' = Append(events,
                              StateChangedEvent(Len(sessions) + 1, issuanceSession, NoState))
          ELSE UNCHANGED <<sessions, issuedLog, events>>
       /\ UNCHANGED <<issuers, now, call, result, basicVars, metadataCall>>

\* ------------------------------------------------------------------------
\* updateState on a persisted record, as the offer and token endpoints and the
\* host apply it outside createCredentialResponse; what the calls before it
\* returned has been handed to their callers by then
\* ------------------------------------------------------------------------
HostUpdateState(sid, newState) ==
  LET rec == [sessions[sid] EXCEPT !.state = newState]
  IN /\ sessions' = [sessions EXCEPT ![sid] = rec]
     /\ events' = Append(events, StateChangedEvent(sid, rec, sessions[sid].state))
     /\ offerResult' = NoOfferResult
     /\ result' = [p \in Procs |-> NoResult]
     /\ UNCHANGED <<issuers, now, issuedLog, call, basicVars, metadataCall>>

RetrieveOfferUri ==
  \E sid \in 1..Len(sessions) :
    /\ AllIdle /\ EventRoom(1)
    /\ sessions[sid].state = OfferCreated
    /\ HostUpdateState(sid, OfferUriRetrieved)

CreateAccessToken ==
  \E sid \in 1..Len(sessions) :
    /\ AllIdle /\ EventRoom(1)
    /\ sessions[sid].state \in {OfferCreated, OfferUriRetrieved}
    /\ HostUpdateState(sid, AccessTokenCreated)

HostRecordError ==
  \E sid \in 1..Len(sessions) :
    /\ AllIdle /\ EventRoom(1)
    /\ sessions[sid].state # Error
    /\ HostUpdateState(sid, Error)

Tick ==
  /\ now < MaxTime
  /\ now' = now + 1
  /\ UNCHANGED <<issuers, sessions, events, issuedLog, offerResult, call, result, basicVars, metadataCall>>


\* ------------------------------------------------------------------------
\* rotateAccessTokenSigningKey
\* ------------------------------------------------------------------------
\* wallet.createKey: a key no issuer record holds or has held
CreatedKeys ==
  {key \in Elements(KeyList) :
     \A i \in DOMAIN issuers :
       KeyPosition(key) > KeyPosition(issuers[i].accessTokenPublicKeyFingerprint)}

RotateAccessTokenSigningKey(issuerId) ==
  /\ CreatedKeys # {}
  /\ LET accessTokenSignerKey ==
           CHOOSE key \in CreatedKeys :
             \A other \in CreatedKeys : KeyPosition(key) <= KeyPosition(other)
     IN issuers' = [issuers EXCEPT ![issuerId] =
                      IssuerRecord(issuerId, accessTokenSignerKey, now)]
  /\ UNCHANGED <<sessions, events, now, issuedLog, offerResult, call, result, basicVars, metadataCall>>

\* ------------------------------------------------------------------------
\* Nonce subsystem
\* ------------------------------------------------------------------------
\* createNonce: a JWS over {iss, exp} with header {typ, kid}, signed with the key of
\* the fingerprint held by the issuer record the caller passes in
CreateNonce(issuer, t) ==
  [iss |-> IssuerUrl(issuer.issuerId), exp |-> t + CNonceExpiresInSeconds,
   typ |-> CNonceTyp, kid |-> issuer.accessTokenPublicKeyFingerprint,
   sig |-> issuer.accessTokenPublicKeyFingerprint]

\* JwtPayload.validate: the expiry claim against the clock
PayloadValidate(nonce, t) == ~(nonce.exp < t)

\* verifyNonce without the comparison of the iss claim
VerifyNonceWithoutIssuer(issuer, nonce, t) ==
  /\ PayloadValidate(nonce, t)
  /\ nonce.typ = CNonceTyp
  /\ nonce.sig = issuer.accessTokenPublicKeyFingerprint

\* verifyNonce without the verification of the signature
VerifyNonceWithoutSignature(issuer, nonce, t) ==
  /\ PayloadValidate(nonce, t)
  /\ nonce.iss = IssuerUrl(issuer.issuerId)
  /\ nonce.typ = CNonceTyp

\* verifyNonce without the validation of the payload
VerifyNonceWithoutExpiry(issuer, nonce, t) ==
  /\ nonce.iss = IssuerUrl(issuer.issuerId)
  /\ nonce.typ = CNonceTyp
  /\ nonce.sig = issuer.accessTokenPublicKeyFingerprint

\* verifyNonce without the comparison of the typ header
VerifyNonceWithoutTyp(issuer, nonce, t) ==
  /\ PayloadValidate(nonce, t)
  /\ nonce.iss = IssuerUrl(issuer.issuerId)
  /\ nonce.sig = issuer.accessTokenPublicKeyFingerprint

\* verifyNonce: TRUE when it returns, FALSE when it throws
VerifyNonce(issuer, nonce, t) ==
  /\ PayloadValidate(nonce, t)
  /\ nonce.iss = IssuerUrl(issuer.issuerId)
  /\ nonce.typ = CNonceTyp
  /\ nonce.sig = issuer.accessTokenPublicKeyFingerprint

\* The nonces a wallet can obtain: createNonce is public and serves the nonce
\* endpoint, so a wallet can have obtained one at every moment up to now since the
\* issuer record holds its fingerprint
ObtainableNonces ==
  UNION {{CreateNonce(issuers[i], t) : t \in issuers[i].updatedAt..now} : i \in DOMAIN issuers}

\* Tokens of another type than line 433 gives a nonce, signed with the same key:
\* the key of the issuer record signs the access tokens too
OtherTokens ==
  {[CreateNonce(issuers[i], now) EXCEPT !.typ = "at+jwt"] : i \in DOMAIN issuers}

\* ------------------------------------------------------------------------
\* createCredentialResponse
\* ------------------------------------------------------------------------
\* The call of p ends by throwing err; cNonce is the nonce the error carries
Throw(p, err, cNonce) ==
  /\ result' = [result EXCEPT ![p] =
                  [@ EXCEPT !.status = "error", !.error = err, !.cNonce = cNonce,
                            !.signFormat = "",
                            !.cNonceExpiresInSeconds =
                              IF cNonce = NoNonce THEN 0 ELSE CNonceExpiresInSeconds,
                            !.mintedN = IF cNonce = NoNonce THEN @ ELSE @ + 1]]
  /\ call' = [call EXCEPT ![p] = IdleCall]

\* a throw inside the loop that mints no nonce
ThrowAtProofWithoutNonce(p, err, cNonce, nonce) ==
  /\ result' = [result EXCEPT ![p] =
                  [@ EXCEPT !.status = "error", !.error = err, !.proofNonce = nonce]]
  /\ call' = [call EXCEPT ![p] = IdleCall]

\* The call of p ends by throwing err at the proof whose nonce claim is nonce
ThrowAtProof(p, err, cNonce, nonce) ==
  /\ result' = [result EXCEPT ![p] =
                  [@ EXCEPT !.status = "error", !.error = err, !.cNonce = cNonce,
                            !.cNonceExpiresInSeconds =
                              IF cNonce = NoNonce THEN 0 ELSE CNonceExpiresInSeconds,
                            !.proofNonce = nonce,
                            !.mintedN = IF cNonce = NoNonce THEN @ ELSE @ + 1]]
  /\ call' = [call EXCEPT ![p] = IdleCall]

\* The nonce the wallet holds from an InvalidNonce answer to its previous
\* credential request on the session, to carry in the proofs of the next
GivenNonce(p, sid) ==
  IF result[p].sid = sid /\ result[p].error = ErrInvalidNonce THEN result[p].cNonce
  ELSE NoNonce

\* The nonce in the proofs of the wallet's previous credential request on the
\* session, when verifyNonce accepted it there and the request failed later, at
\* lines 639-650
UsedNonce(p, sid) ==
  IF /\ result[p].sid = sid
     /\ result[p].error \in {ErrCredentialRequestDenied, ErrHolderBindingMethod}
  THEN result[p].proofNonce
  ELSE NoNonce

\* the two checks of the parsed request in the other order
RequestErrorFormatFirst(credentialIdentifier, format) ==
  IF format = NoFormat THEN ErrUnsupportedCredentialFormat
  ELSE IF credentialIdentifier THEN ErrCredentialIdentifier
  ELSE NoError

\* Lines 179-191: the error of the parsed request, NoError when it has none:
\* credential_identifier is refused first, then a request without a format
RequestError(credentialIdentifier, format) ==
  IF credentialIdentifier THEN ErrCredentialIdentifier
  ELSE IF format = NoFormat THEN ErrUnsupportedCredentialFormat
  ELSE NoError

\* the missing proofs error thrown without a nonce to retry with
MissingProofWithoutNonce(p, started, issuer) ==
  /\ result' = [result EXCEPT ![p] =
                  [started EXCEPT !.status = "error", !.error = ErrMissingProof]]
  /\ UNCHANGED call

\* Lines 193-201: a request without proofs is answered with the error that
\* carries a freshly minted nonce
MissingProof(p, started, issuer) ==
  /\ result' = [result EXCEPT ![p] =
                  [started EXCEPT !.status = "error", !.error = ErrMissingProof,
                                  !.cNonce = CreateNonce(issuer, now),
                                  !.cNonceExpiresInSeconds = CNonceExpiresInSeconds,
                                  !.mintedN = 1]]
  /\ UNCHANGED call

\* Lines 162-201: assertState, load the issuer, parse the request, the checks that
\* come before the first transition. The caller hands in the record it loaded
\* with getIssuanceSessionById.
CallStart(p) ==
  \E sid \in 1..Len(sessions), credentialIdentifier \in BOOLEAN,
     format \in {NoFormat, "supported"},
     shape \in {"none", "proof", "proofs"}, n \in 0..MaxProofs :
    LET issuanceSession == sessions[sid]
        issuer == issuers[issuanceSession.issuerId]
        started == [NoResult EXCEPT !.status = "running", !.sid = sid, !.nProofs = n,
                                    !.credentialIdentifier = credentialIdentifier,
                                    !.format = format]
    IN /\ call[p].pc = "idle"
       /\ shape = "none" => n = 0
       /\ shape = "proof" => n = 1
       \* the request is parsed as a whole at line 175: before that line none of
       \* its parts is read, and one request stands for all
       /\ issuanceSession.state \notin CredentialResponseAllowedStates
            => (~credentialIdentifier /\ format = "supported" /\ shape = "proof")
       \* lines 179-191 fail before the proofs are read: a request without proofs
       \* and a request with one proof stand for all
       /\ (credentialIdentifier \/ format = NoFormat) => shape \in {"none", "proof"}
       /\ UNCHANGED <<issuers, sessions, events, now, issuedLog, offerResult, basicVars, metadataCall>>
       /\ IF issuanceSession.state \notin CredentialResponseAllowedStates
          THEN /\ result' = [result EXCEPT ![p] =
                               [started EXCEPT !.status = "error",
                                               !.error = ErrIllegalSessionState]]
               /\ UNCHANGED call
          ELSE IF RequestError(credentialIdentifier, format) # NoError
          THEN /\ result' = [result EXCEPT ![p] =
                               [started EXCEPT !.status = "error",
                                               !.error = RequestError(credentialIdentifier,
                                                                      format)]]
               /\ UNCHANGED call
          ELSE IF n = 0
          THEN MissingProof(p, started, issuer)
          ELSE /\ EventRoom(2)
               /\ result' = [result EXCEPT ![p] = started]
               /\ call' = [call EXCEPT ![p] =
                             [IdleCall EXCEPT !.pc = "earlyUpdate", !.sid = sid,
                                              !.rec = issuanceSession, !.issuer = issuer,
                                              !.shape = shape, !.nProofs = n, !.idx = 1,
                                              !.givenNonce = GivenNonce(p, sid),
                                              !.usedNonce = UsedNonce(p, sid)]]

\* updateState that sets the state on the record and never writes the repository
PersistStateNoUpdate(p, newRec, nextPc) ==
  /\ sessions' = sessions
  /\ call' = [call EXCEPT ![p] = [@ EXCEPT !.pc = nextPc, !.rec = newRec,
                                           !.previousState = call[p].rec.state]]

\* updateState, first half: set the state on the record and write the record to the
\* repository (last write wins)
PersistState(p, newRec, nextPc) ==
  /\ sessions' = [sessions EXCEPT ![call[p].sid] = newRec]
  /\ call' = [call EXCEPT ![p] = [@ EXCEPT !.pc = nextPc, !.rec = newRec,
                                           !.previousState = call[p].rec.state]]

\* the early transition written with an emptied list of issued credentials
EarlyRecordWithoutIssued(rec) ==
  [rec EXCEPT !.state = CredentialRequestReceived, !.issuedCredentials = <<>>]

\* Lines 518-519 for line 202: the record with its state set, all else as loaded
EarlyRecord(rec) == [rec EXCEPT !.state = CredentialRequestReceived]

\* Line 202: updateState(CredentialRequestReceived)
EarlyUpdate(p) ==
  /\ call[p].pc = "earlyUpdate"
  /\ PersistState(p, EarlyRecord(call[p].rec), "earlyEmit")
  /\ UNCHANGED <<issuers, events, now, issuedLog, offerResult, result, basicVars, metadataCall>>

\* updateState, second half: emitStateChangedEvent
EarlyEmit(p) ==
  /\ call[p].pc = "earlyEmit"
  /\ events' = Append(events,
                 StateChangedEvent(call[p].sid, call[p].rec, call[p].previousState))
  /\ call' = [call EXCEPT ![p] = [@ EXCEPT !.pc = "proofs", !.previousState = NoState]]
  /\ UNCHANGED <<issuers, sessions, now, issuedLog, offerResult, result, basicVars, metadataCall>>

\* ------------------------------------------------------------------------
\* getSignedCredentials
\* ------------------------------------------------------------------------
\* no filtering by issuedCredentials
AllOfferedCredentialConfigurationIds(rec) == rec.offer

\* Lines 624-627: offered ids not yet in issuedCredentials, in offer order
NotIssuedCredentialConfigurationIds(rec) ==
  SelectSeq(rec.offer, LAMBDA id : ~Includes(rec.issuedCredentials, id))

\* getCredentialConfigurationsMatchingRequestFormat over getOfferedCredentials:
\* the ids among ids whose configuration has the format and type of the request
MatchingCredentialConfigurationIds(ids, requestFormat) ==
  {id \in Elements(ids) :
     /\ CredentialConfigurationsSupported[id].format = requestFormat.format
     /\ CredentialConfigurationsSupported[id].type = requestFormat.type}

\* getHolderBindingFromRequestProofs: TRUE when every signer resolves to a binding
HolderBindingsSupported(proofSigners) ==
  \A k \in 1..Len(proofSigners) : proofSigners[k] \notin {"custom", "x5c"}

\* Lines 586-602: one binding per jwk or did signer. The service hands the
\* bindings to the mapper and to the signers and itself reads only how many
\* there are (line 677): of a binding the model keeps that it holds a key
HolderBindings(proofSigners) ==
  [k \in 1..Len(SelectSeq(proofSigners, LAMBDA m : m \in {"jwk", "did"})) |-> "key"]

\* the holder bindings resolved before the configurations are matched
MatchErrorBindingsFirst(rec, requestFormat, proofSigners) ==
  IF ~HolderBindingsSupported(proofSigners) THEN ErrHolderBindingMethod
  ELSE IF MatchingCredentialConfigurationIds(
            NotIssuedCredentialConfigurationIds(rec), requestFormat) = {}
  THEN ErrCredentialRequestDenied
  ELSE NoError

\* Lines 621-650: what getSignedCredentials throws before it calls the mapper
MatchError(rec, requestFormat, proofSigners) ==
  IF MatchingCredentialConfigurationIds(
       NotIssuedCredentialConfigurationIds(rec), requestFormat) = {}
  THEN ErrCredentialRequestDenied
  ELSE IF ~HolderBindingsSupported(proofSigners) THEN ErrHolderBindingMethod
  ELSE NoError

SignerMethods == {"jwk", "did", "x5c", "custom"}

\* Line 650 is the only reader of the signers of the proofs: one method stands for
\* all of the last proof when the request is denied at lines 639-643 before it
SignerMethodsRead(rec, requestFormat) ==
  IF MatchingCredentialConfigurationIds(
       NotIssuedCredentialConfigurationIds(rec), requestFormat) = {}
  THEN {"jwk"}
  ELSE SignerMethods

\* Lines 624-643 read the format and type of the request only to compare them
\* with those of the offered configurations not yet issued. A wallet can ask for
\* the format and type of every offered configuration, issued or not; of the
\* requests that correspond to no offered configuration, one with a format and
\* one with a type that no configuration has stand for all
RequestFormatsRead(rec) ==
  {CredentialConfigurationsSupported[id] : id \in Elements(rec.offer)}
    \cup {[format |-> FormatJwtVcJsonLd, type |-> "T1"],
          [format |-> FormatSdJwtVc, type |-> "T2"]}

\* verifyNonce with a cache of the nonces seen, as its todo note proposes
NonceAcceptedOnce(c, nonce) ==
  nonce # c.usedNonce /\ VerifyNonce(c.issuer, nonce, now)

\* Line 236: verifyNonce on the issuer record of the call and the nonce claim of
\* the proof; nothing else is handed to it
NonceAccepted(c, nonce) == VerifyNonce(c.issuer, nonce, now)

\* the comparison with the first nonce left out
NeverInconsistent(previousNonce, nonce) == FALSE

\* Line 225
NonceInconsistent(previousNonce, nonce) == previousNonce # nonce

\* Lines 206-252, one iteration of the loop over proofs.jwt, and after the last
\* proof lines 254 and 621-663, which read nothing but the locals of the call: the
\* matching of configurations, the holder bindings and the call of the mapper.
\* The wallet's request is fixed when it arrives; the model draws each part of it
\* where the code first uses it: the proof token at position idx (whether it
\* verifies, its nonce claim, the method of its signer) in its iteration, the
\* format and type of the request at the matching.
VerifyProof(p) ==
  LET c == call[p]
      fresh == CreateNonce(c.issuer, now)
      last == c.idx = c.nProofs
  IN /\ c.pc = "proofs"
     /\ UNCHANGED <<issuers, sessions, events, now, issuedLog, offerResult, basicVars, metadataCall>>
     /\ \E ok \in BOOLEAN :
          IF ~ok THEN Throw(p, ErrProofVerification, NoNonce)
          ELSE \E nonce \in {NoNonce, c.givenNonce} \cup ObtainableNonces \cup ForgedNonces
                          \cup OtherTokens :
            LET previousNonce == IF c.previousNonce = NoNonce THEN nonce
                                 ELSE c.previousNonce
            IN IF nonce = NoNonce THEN ThrowAtProof(p, ErrMissingNonceInProof, fresh, nonce)
               ELSE IF NonceInconsistent(previousNonce, nonce)
               THEN ThrowAtProof(p, ErrInconsistentNonce, fresh, nonce)
               ELSE IF ~NonceAccepted(c, nonce)
               THEN ThrowAtProof(p, ErrInvalidNonce, fresh, nonce)
               ELSE IF ~last
               THEN \E method \in SignerMethods :
                      /\ call' = [call EXCEPT ![p] =
                                    [@ EXCEPT !.previousNonce = previousNonce,
                                              !.usedNonce = NoNonce,
                                              !.proofSigners = Append(@, method),
                                              !.idx = @ + 1]]
                      /\ result' = [result EXCEPT ![p] = [@ EXCEPT !.proofNonce = nonce]]
               ELSE \E requestFormat \in RequestFormatsRead(c.rec) :
                 \E method \in SignerMethodsRead(c.rec, requestFormat) :
                   LET proofSigners == Append(c.proofSigners, method)
                       matchError == MatchError(c.rec, requestFormat, proofSigners)
                   IN IF matchError # NoError
                      THEN /\ result' = [result EXCEPT ![p] =
                                           [@ EXCEPT !.status = "error",
                                                     !.error = matchError,
                                                     !.proofNonce = nonce,
                                                     !.requestFormat = requestFormat,
                                                     !.unsupportedSigner =
                                                       ~HolderBindingsSupported(
                                                          proofSigners)]]
                           /\ call' = [call EXCEPT ![p] = IdleCall]
                      ELSE /\ call' = [call EXCEPT ![p] =
                                         [@ EXCEPT !.pc = "mapper",
                                                   !.previousNonce = NoNonce,
                                                   !.format = requestFormat,
                                                   !.proofSigners =
                                                     HolderBindings(proofSigners),
                                                   !.idx = @ + 1]]
                           /\ result' = [result EXCEPT ![p] =
                                           [@ EXCEPT !.requestFormat = requestFormat,
                                                     !.proofNonce = nonce,
                                                     !.mapperInvoked = TRUE]]

\* the already-issued check left out
NeverAlreadyIssued(rec, credentialConfigurationId) == FALSE

\* Lines 665-667
CredentialHasAlreadyBeenIssued(rec, credentialConfigurationId) ==
  Includes(rec.issuedCredentials, credentialConfigurationId)

\* the count check left out
NeverCountMismatch(credentials, holderBindings) == FALSE

\* Line 677
CredentialCountMismatch(credentials, holderBindings) ==
  Len(credentials) # Len(holderBindings)

\* the map with its two claim formats exchanged
ExpectedClaimFormatExchanged(requestFormat) ==
  CASE requestFormat = FormatJwtVcJson -> ClaimLdpVc
    [] requestFormat = FormatJwtVcJsonLd -> ClaimLdpVc
    [] requestFormat = FormatLdpVc -> ClaimJwtVc
    [] OTHER -> "undefined"

\* Lines 684-690: oid4vciFormatMap[options.requestFormat.format]
ExpectedClaimFormat(requestFormat) ==
  CASE requestFormat = FormatJwtVcJson -> ClaimJwtVc
    [] requestFormat = FormatJwtVcJsonLd -> ClaimJwtVc
    [] requestFormat = FormatLdpVc -> ClaimLdpVc
    [] OTHER -> "undefined"

\* the comparison of the first payload only
PayloadTypeMismatchFirstOnly(credentials, requestFormat) ==
  credentials # <<>> /\ credentials[1] # requestFormat.type

\* Lines 713 and 735: not every payload declares the type of the request (vct
\* for SdJwtVc, docType for MsoMdoc)
PayloadTypeMismatch(credentials, requestFormat) ==
  \E k \in 1..Len(credentials) : credentials[k] # requestFormat.type

\* Lines 665-753: the checks on what the mapper returned, up to the signer calls.
\* NoError when the payloads go to the signer.
SignOptionsError(rec, requestFormat, holderBindings, signOptions) ==
  IF CredentialHasAlreadyBeenIssued(rec, signOptions.credentialConfigurationId)
  THEN ErrMapperCount
  ELSE IF CredentialCountMismatch(signOptions.credentials, holderBindings)
  THEN ErrMapperCount
  ELSE IF signOptions.format \in {ClaimJwtVc, ClaimLdpVc}
  THEN IF signOptions.format # ExpectedClaimFormat(requestFormat.format)
       THEN ErrInvalidFormat ELSE NoError
  ELSE IF signOptions.format = ClaimSdJwtVc
  THEN IF signOptions.format # requestFormat.format THEN ErrInvalidFormat
       ELSE IF PayloadTypeMismatch(signOptions.credentials, requestFormat)
       THEN ErrVctMismatch ELSE NoError
  ELSE IF signOptions.format = ClaimMsoMdoc
  THEN IF signOptions.format # requestFormat.format THEN ErrInvalidFormat
       ELSE IF PayloadTypeMismatch(signOptions.credentials, requestFormat)
       THEN ErrDoctypeMismatch ELSE NoError
  ELSE ErrUnsupportedSignFormat

\* Lines 684-753 are the only readers of the claim format of the sign options:
\* one format stands for all when the answer of the mapper fails before them
SignFormatsRead(rec, holderBindings, credentialConfigurationId, credentials) ==
  IF \/ CredentialHasAlreadyBeenIssued(rec, credentialConfigurationId)
     \/ CredentialCountMismatch(credentials, holderBindings)
  THEN {ClaimOther}
  ELSE ClaimFormats

\* Lines 713 and 735 are the only readers of the types the payloads
\* declare: TRUE when the answer of the mapper gets as far as one of them
PayloadTypesCompared(rec, requestFormat, holderBindings, signOptions) ==
  /\ signOptions.format \in {ClaimSdJwtVc, ClaimMsoMdoc}
  /\ SignOptionsError(rec, requestFormat, holderBindings,
                      [signOptions EXCEPT !.credentials =
                         [k \in DOMAIN @ |-> requestFormat.type]]) = NoError

\* Lines 651-753: the mapper returns, its answer is checked and the payloads are
\* signed. A mapper can return any configuration id, any claim format and any
\* number of payloads, each declaring a type (format and types drawn where the
\* code reads them); signedBySigner is the number of payloads the external signer signs
\* before it fails, or all of them. The sign options are a local of
\* getSignedCredentials: the claim format that went to the signers is on record
\* until the next step of the call
MapperReturn(p) ==
  LET c == call[p]
      holderBindings == c.proofSigners
  IN /\ c.pc = "mapper"
     /\ UNCHANGED <<issuers, sessions, events, now, issuedLog, offerResult, basicVars, metadataCall>>
     /\ \E credentialConfigurationId \in ConfigIds, n \in 0..MaxProofs :
        \E format \in SignFormatsRead(c.rec, holderBindings, credentialConfigurationId,
                                      [k \in 1..n |-> c.format.type]) :
          LET plain == [credentialConfigurationId |-> credentialConfigurationId,
                        format |-> format,
                        credentials |-> [k \in 1..n |-> c.format.type]]
              payloads == IF PayloadTypesCompared(c.rec, c.format, holderBindings, plain)
                          THEN [1..n -> RequestTypes]
                          ELSE {plain.credentials}
          IN \E credentials \in payloads :
               LET signOptions == [plain EXCEPT !.credentials = credentials]
                   err == SignOptionsError(c.rec, c.format, holderBindings, signOptions)
               IN IF err # NoError
                  THEN /\ result' = [result EXCEPT ![p] =
                                       [@ EXCEPT !.status = "error", !.error = err,
                                                 !.credentialConfigurationId =
                                                   credentialConfigurationId,
                                                 !.requestFormat = NoRequestFormat,
                                                 !.proofNonce = NoNonce,
                                                 !.payloadN = n, !.payloads = credentials]]
                       /\ call' = [call EXCEPT ![p] = IdleCall]
                  ELSE \E signedBySigner \in 0..n :
                    IF signedBySigner < n
                    THEN /\ result' = [result EXCEPT ![p] =
                                         [@ EXCEPT !.status = "error", !.error = ErrSigner,
                                                   !.credentialConfigurationId =
                                                     credentialConfigurationId,
                                                   !.requestFormat = NoRequestFormat,
                                                   !.proofNonce = NoNonce,
                                                   !.payloadN = n, !.payloads = credentials,
                                                   !.signedN = signedBySigner]]
                         /\ call' = [call EXCEPT ![p] = IdleCall]
                    ELSE /\ call' = [call EXCEPT ![p] =
                                       [@ EXCEPT !.pc = "responseNonce",
                                                 !.givenNonce = NoNonce,
                                                 !.usedNonce = NoNonce,
                                                 !.format = NoRequestFormat,
                                                 !.proofSigners = <<>>,
                                                 !.signed =
                                                   [credentialConfigurationId |->
                                                      credentialConfigurationId,
                                                    credentials |-> n]]]
                         /\ result' = [result EXCEPT ![p] =
                                         [@ EXCEPT !.credentialConfigurationId =
                                                     credentialConfigurationId,
                                                   !.requestFormat = NoRequestFormat,
                                                   !.proofNonce = NoNonce,
                                                   !.payloadN = n, !.payloads = credentials,
                                                   !.signFormat = format, !.signedN = n]]

\* ------------------------------------------------------------------------
\* createCredentialResponse, after signing
\* ------------------------------------------------------------------------
\* the response is built without a nonce having been minted
ResponseNonceNotMinted(p) ==
  /\ call[p].pc = "responseNonce"
  /\ call' = [call EXCEPT ![p] = [@ EXCEPT !.pc = "finalUpdate"]]
  /\ UNCHANGED <<issuers, sessions, events, now, issuedLog, offerResult, result, basicVars, metadataCall>>

\* Line 264: the nonce of the response. createNonce signs the nonce with the key
\* of the issuer in the wallet (line 426): the call ends here when that throws
ResponseNonce(p) ==
  /\ call[p].pc = "responseNonce"
  /\ UNCHANGED <<issuers, sessions, events, now, issuedLog, offerResult, basicVars, metadataCall>>
  /\ \E minted \in BOOLEAN :
       IF minted
       THEN /\ call' = [call EXCEPT ![p] =
                         [@ EXCEPT !.pc = "finalUpdate",
                                   !.cNonce = CreateNonce(call[p].issuer, now)]]
            /\ result' = [result EXCEPT ![p] = [@ EXCEPT !.mintedN = @ + 1,
                                                         !.signFormat = ""]]
       ELSE Throw(p, ErrCreateNonce, NoNonce)

\* the session left open after every issuance
NewStateNeverCompleted(issuedCredentials, credentialConfigurationIds) ==
  CredentialsPartiallyIssued

\* Lines 274-278
NewState(issuedCredentials, credentialConfigurationIds) ==
  IF Len(issuedCredentials) >= Len(credentialConfigurationIds)
  THEN Completed ELSE CredentialsPartiallyIssued

\* unshift in place of push
UnshiftIssued(issuedCredentials, credentialConfigurationId) ==
  <<credentialConfigurationId>> \o issuedCredentials

\* Line 273: issuedCredentials.push
PushIssued(issuedCredentials, credentialConfigurationId) ==
  Append(issuedCredentials, credentialConfigurationId)

\* Lines 273-279: record the issuance and updateState(newState)
FinalUpdate(p) ==
  LET c == call[p]
      issued == PushIssued(c.rec.issuedCredentials, c.signed.credentialConfigurationId)
      newRec == [c.rec EXCEPT !.issuedCredentials = issued,
                              !.state = NewState(issued, c.rec.offer)]
  IN /\ c.pc = "finalUpdate"
     /\ PersistState(p, newRec, "finalEmit")
     /\ UNCHANGED <<issuers, events, now, issuedLog, offerResult, result, basicVars, metadataCall>>

\* the encoded credentials in the reverse order of their payloads
SignedCredentialsReversed(n) == [k \in 1..n |-> n + 1 - k]

\* Lines 699-703, 724-726, 746-748: Promise.all over credentials.map, the encoded
\* credential at position k is the signed payload of position k; of an encoded
\* credential the model keeps the position of its payload
SignedCredentials(n) == [k \in 1..n |-> k]

\* Line 266: credentialRequest.proof ? signedCredentials.credentials[0] : undefined
HasCredential(shape) == shape = "proof"

\* the plural array filled in whatever the request carried
HasCredentialsAlways(shape) == TRUE

\* Line 267: credentialRequest.proofs ? signedCredentials.credentials : undefined
HasCredentials(shape) == shape = "proofs"

\* updateState emits its event, then lines 281-284: the response is returned
FinalEmit(p) ==
  LET c == call[p]
  IN /\ c.pc = "finalEmit"
     /\ events' = Append(events, StateChangedEvent(c.sid, c.rec, c.previousState))
     /\ result' = [result EXCEPT ![p] =
                     [@ EXCEPT !.status = "ok", !.cNonce = c.cNonce,
                               !.cNonceExpiresInSeconds = CNonceExpiresInSeconds,
                               !.hasCredential = HasCredential(c.shape),
                               !.hasCredentials = HasCredentials(c.shape),
                               !.nCredentials = c.signed.credentials,
                               !.credentials =
                                 IF HasCredentials(c.shape)
                                 THEN SignedCredentials(c.signed.credentials)
                                 ELSE IF HasCredential(c.shape) /\ c.signed.credentials >= 1
                                 THEN <<SignedCredentials(c.signed.credentials)[1]>>
                                 ELSE <<>>,
                               !.credentialConfigurationId =
                                 c.signed.credentialConfigurationId]]
     /\ issuedLog' = [issuedLog EXCEPT ![c.sid] =
                        Append(@, c.signed.credentialConfigurationId)]
     /\ call' = [call EXCEPT ![p] = IdleCall]
     /\ UNCHANGED <<issuers, sessions, now, offerResult, basicVars, metadataCall>>

\* ------------------------------------------------------------------------
\* Specifications
\* ------------------------------------------------------------------------
\* Calls of createCredentialResponse executed one after another
Next ==
  \/ CreateCredentialOffer
  \/ RetrieveOfferUri
  \/ CreateAccessToken
  \/ HostRecordError
  \/ Tick
  \/ \E p \in SeqProcs : CallStart(p)
  \/ \E p \in SeqProcs : EarlyUpdate(p)
  \/ \E p \in SeqProcs : EarlyEmit(p)
  \/ \E p \in SeqProcs : VerifyProof(p)
  \/ \E p \in SeqProcs : MapperReturn(p)
  \/ \E p \in SeqProcs : ResponseNonce(p)
  \/ \E p \in SeqProcs : FinalUpdate(p)
  \/ \E p \in SeqProcs : FinalEmit(p)

Spec == Init /\ [][Next]_vars

\* Calls of createCredentialResponse interleaved at their suspension points, on a
\* session for which the wallet has obtained its access token
ConcOffers == {<<"c1", "c2">>}

InitConc ==
  \E offered \in ConcOffers :
    LET created == [issuerId |-> "i1", state |-> OfferCreated,
                    offer |-> offered, issuedCredentials |-> <<>>]
        withToken == [created EXCEPT !.state = AccessTokenCreated]
    IN /\ issuers = [i \in Issuers |-> IssuerRecord(i, InitialFingerprint[i], 0)]
       /\ sessions = <<withToken>>
       /\ events = <<StateChangedEvent(1, created, NoState),
                     StateChangedEvent(1, withToken, OfferCreated)>>
       /\ now = 0
       /\ issuedLog = << <<>> >>
       /\ offerResult = NoOfferResult
       /\ call = [p \in Procs |-> IdleCall]
       /\ result = [p \in Procs |-> NoResult]
       /\ basicMessages = <<>>
       /\ basicResult = NoBasicResult
       /\ metadataCall = NoMetadataCall

NextConc ==
  \/ \E p \in Procs : CallStart(p)
  \/ \E p \in Procs : EarlyUpdate(p)
  \/ \E p \in Procs : EarlyEmit(p)
  \/ \E p \in Procs : VerifyProof(p)
  \/ \E p \in Procs : MapperReturn(p)
  \/ \E p \in Procs : ResponseNonce(p)
  \/ \E p \in Procs : FinalUpdate(p)
  \/ \E p \in Procs : FinalEmit(p)

SpecConc == InitConc /\ [][NextConc]_vars

\* Credential requests on a session of issuer i1 while the signing keys of the
\* issuers are rotated; i2 is a second issuer of the agent, whose record holds
\* the key of i1 or a key of its own
NonceIssuers == {"i1", "i2"}
NonceOffers == {<<"c1">>}

InitNonce ==
  \E offered \in NonceOffers, fingerprint \in {"k1", "k2"} :
    LET created == [issuerId |-> "i1", state |-> OfferCreated,
                    offer |-> offered, issuedCredentials |-> <<>>]
        withToken == [created EXCEPT !.state = AccessTokenCreated]
    IN /\ issuers = [i \in NonceIssuers |->
                       IssuerRecord(i, IF i = "i1" THEN "k1" ELSE fingerprint, 0)]
       /\ sessions = <<withToken>>
       /\ events = <<StateChangedEvent(1, created, NoState),
                     StateChangedEvent(1, withToken, OfferCreated)>>
       /\ now = 0
       /\ issuedLog = << <<>> >>
       /\ offerResult = NoOfferResult
       /\ call = [p \in Procs |-> IdleCall]
       /\ result = [p \in Procs |-> NoResult]
       /\ basicMessages = <<>>
       /\ basicResult = NoBasicResult
       /\ metadataCall = NoMetadataCall

NextNonce ==
  \/ Tick
  \/ \E issuerId \in DOMAIN issuers : RotateAccessTokenSigningKey(issuerId)
  \/ \E p \in SeqProcs : CallStart(p)
  \/ \E p \in SeqProcs : EarlyUpdate(p)
  \/ \E p \in SeqProcs : EarlyEmit(p)
  \/ \E p \in SeqProcs : VerifyProof(p)
  \/ \E p \in SeqProcs : MapperReturn(p)
  \/ \E p \in SeqProcs : ResponseNonce(p)
  \/ \E p \in SeqProcs : FinalUpdate(p)
  \/ \E p \in SeqProcs : FinalEmit(p)

SpecNonce == InitNonce /\ [][NextNonce]_vars

\* ------------------------------------------------------------------------
\* Credential requests on a session whose repository can fail to write
\* ------------------------------------------------------------------------
\* updateState when the awaited repository.update of line 524 rejects: line 523
\* has set the state on the record object of the caller (newRec), nothing is
\* written, line 526 is not reached and the error leaves createCredentialResponse.
\* The caller is left with the record object it passed in.
RepositoryUpdateFails(p, newRec) ==
  /\ result' = [result EXCEPT ![p] =
                  [@ EXCEPT !.status = "error", !.error = ErrRepositoryUpdate,
                            !.signFormat = "",
                            !.recordState = newRec.state,
                            !.recordIssued = newRec.issuedCredentials]]
  /\ call' = [call EXCEPT ![p] = IdleCall]
  /\ UNCHANGED <<issuers, sessions, events, now, issuedLog, offerResult, basicVars,
                 metadataCall>>

\* Line 202 with a failing write
EarlyUpdateFails(p) ==
  /\ call[p].pc = "earlyUpdate"
  /\ RepositoryUpdateFails(p, EarlyRecord(call[p].rec))

\* Lines 273-279 with a failing write: the id has been pushed at line 273
FinalUpdateFails(p) ==
  LET c == call[p]
      issued == PushIssued(c.rec.issuedCredentials, c.signed.credentialConfigurationId)
  IN /\ c.pc = "finalUpdate"
     /\ RepositoryUpdateFails(p, [c.rec EXCEPT !.issuedCredentials = issued,
                                               !.state = NewState(issued, c.rec.offer)])

NextStore ==
  \/ \E p \in SeqProcs : CallStart(p)
  \/ \E p \in SeqProcs : EarlyUpdate(p)
  \/ \E p \in SeqProcs : EarlyUpdateFails(p)
  \/ \E p \in SeqProcs : EarlyEmit(p)
  \/ \E p \in SeqProcs : VerifyProof(p)
  \/ \E p \in SeqProcs : MapperReturn(p)
  \/ \E p \in SeqProcs : ResponseNonce(p)
  \/ \E p \in SeqProcs : FinalUpdate(p)
  \/ \E p \in SeqProcs : FinalUpdateFails(p)
  \/ \E p \in SeqProcs : FinalEmit(p)

SpecStore == InitConc /\ [][NextStore]_vars

\* ------------------------------------------------------------------------
\* A wallet and a mapper that cooperate: credential requests on one session, one
\* after another, with no rotation of the key, no time passing and no failure
\* of a collaborator
\* ------------------------------------------------------------------------
\* The offers createCredentialOffer accepts that offer a credential
LiveOffers ==
  {ids \in OfferedCredentialLists : Len(ids) >= 1 /\ NoDuplicates(ids)}

\* The claim format a mapper that follows its contract returns for a request
CorrespondingClaimFormat(format) ==
  CASE format \in {FormatJwtVcJson, FormatJwtVcJsonLd} -> ClaimJwtVc
    [] format = FormatLdpVc -> ClaimLdpVc
    [] format = FormatSdJwtVc -> ClaimSdJwtVc
    [] format = FormatMsoMdoc -> ClaimMsoMdoc
    [] OTHER -> "undefined"

\* What the step of the call of p took from the wallet, the mapper and the
\* collaborators is what cooperating ones hand in. The wallet: a request with a
\* format and with proofs that verify, signed with a key the service resolves,
\* all carrying one nonce the issuer gave it that has not expired, for a format
\* and type of an offered configuration not yet issued. The mapper: such a
\* configuration id, in the corresponding claim format, with one payload of the
\* requested type for each holder binding. The signers and createNonce: no
\* failure.
Cooperative(p) ==
  LET c == call[p]
      r == result'[p]
  IN CASE c.pc = "idle" ->
            sessions[r.sid].state \in CredentialResponseAllowedStates
              => (~r.credentialIdentifier /\ r.format = "supported" /\ r.nProofs >= 1)
       [] c.pc = "proofs" ->
            /\ r.error # ErrProofVerification
            /\ r.proofNonce \in {CreateNonce(c.issuer, t) : t \in 0..now}
            /\ PayloadValidate(r.proofNonce, now)
            /\ c.previousNonce # NoNonce => r.proofNonce = c.previousNonce
            /\ ~r.unsupportedSigner
            /\ call'[p].pc = "proofs"
                 => call'[p].proofSigners[Len(call'[p].proofSigners)] \in {"jwk", "did"}
            /\ c.idx = c.nProofs => MatchingCredentialConfigurationIds(
                                       NotIssuedCredentialConfigurationIds(c.rec),
                                       r.requestFormat) # {}
       [] c.pc = "mapper" ->
            /\ r.credentialConfigurationId \in
                 MatchingCredentialConfigurationIds(
                   NotIssuedCredentialConfigurationIds(c.rec), c.format)
            /\ r.payloads = [k \in 1..Len(c.proofSigners) |-> c.format.type]
            /\ r.error \notin {ErrInvalidFormat, ErrUnsupportedSignFormat, ErrSigner}
            /\ r.status # "error" => r.signFormat = CorrespondingClaimFormat(c.format.format)
       [] c.pc = "responseNonce" -> r.error # ErrCreateNonce
       [] OTHER -> TRUE

\* The session is in a state createCredentialResponse accepts and nothing has
\* been issued on it; events holds the events emitted from here on
InitLive ==
  \E offered \in LiveOffers,
     state \in {OfferUriRetrieved, AccessTokenCreated, CredentialRequestReceived} :
    /\ issuers = [i \in Issuers |-> IssuerRecord(i, InitialFingerprint[i], 0)]
    /\ sessions = <<[issuerId |-> "i1", state |-> state,
                     offer |-> offered, issuedCredentials |-> <<>>]>>
    /\ events = <<>>
    /\ now = 0
    /\ issuedLog = << <<>> >>
    /\ offerResult = NoOfferResult
    /\ call = [p \in Procs |-> IdleCall]
    /\ result = [p \in Procs |-> NoResult]
    /\ basicMessages = <<>>
    /\ basicResult = NoBasicResult
    /\ metadataCall = NoMetadataCall

NextLive ==
  \/ \E p \in SeqProcs : CallStart(p) /\ Cooperative(p)
  \/ \E p \in SeqProcs : EarlyUpdate(p)
  \/ \E p \in SeqProcs : EarlyEmit(p)
  \/ \E p \in SeqProcs : VerifyProof(p) /\ Cooperative(p)
  \/ \E p \in SeqProcs : MapperReturn(p) /\ Cooperative(p)
  \/ \E p \in SeqProcs : ResponseNonce(p) /\ Cooperative(p)
  \/ \E p \in SeqProcs : FinalUpdate(p)
  \/ \E p \in SeqProcs : FinalEmit(p)

\* The wallet keeps submitting and every awaited step of a call completes
SpecLive == InitLive /\ [][NextLive]_vars /\ WF_vars(NextLive)

\* ------------------------------------------------------------------------
\* Basic messages: sendMessage, getById, deleteById of the basic messages API
\* ------------------------------------------------------------------------
MessageContents == {"Hello", "Hello undeliverable"}

BasicIdle == basicResult.status # "sending"

StoredById(id) == id \in 1..Len(basicMessages) /\ basicMessages[id].stored

\* the record of the message is created without being saved
CreateMessageNotSaved(content) ==
  /\ BasicIdle
  /\ Len(basicMessages) < MaxMessages
  /\ basicMessages' = Append(basicMessages, [content |-> content, stored |-> FALSE])
  /\ basicResult' = [NoBasicResult EXCEPT !.op = "sendMessage", !.status = "sending",
                                          !.id = Len(basicMessages) + 1,
                                          !.message = content]
  /\ UNCHANGED issuerVars

\* sendMessage, first half: the message and its record are created and the record
\* is saved in the repository
CreateMessage(content) ==
  /\ BasicIdle
  /\ Len(basicMessages) < MaxMessages
  /\ basicMessages' = Append(basicMessages, [content |-> content, stored |-> TRUE])
  /\ basicResult' = [NoBasicResult EXCEPT !.op = "sendMessage", !.status = "sending",
                                          !.id = Len(basicMessages) + 1,
                                          !.message = content]
  /\ UNCHANGED issuerVars

\* sendMessage, second half: the outbound transport delivers the message or
\* rejects; on a rejection MessageSendingError carries the outbound message
\* context, which holds the message and the record associated with it
SendOutbound ==
  /\ basicResult.status = "sending"
  /\ \E delivered \in BOOLEAN :
       basicResult' =
         IF delivered
         THEN [basicResult EXCEPT !.status = "ok", !.record = basicMessages[basicResult.id]]
         ELSE [basicResult EXCEPT !.status = "error", !.error = ErrMessageSending,
                                  !.associatedRecord = basicResult.id]
  /\ UNCHANGED <<issuerVars, basicMessages>>

GetById(id) ==
  /\ BasicIdle
  /\ basicResult' =
       IF StoredById(id)
       THEN [NoBasicResult EXCEPT !.op = "getById", !.status = "ok", !.id = id,
                                  !.record = basicMessages[id]]
       ELSE [NoBasicResult EXCEPT !.op = "getById", !.status = "error", !.id = id,
                                  !.error = ErrRecordNotFound]
  /\ UNCHANGED <<issuerVars, basicMessages>>

DeleteById(id) ==
  /\ BasicIdle
  /\ IF StoredById(id)
     THEN /\ basicMessages' = [basicMessages EXCEPT ![id].stored = FALSE]
          /\ basicResult' = [NoBasicResult EXCEPT !.op = "deleteById", !.status = "ok",
                                                  !.id = id]
     ELSE /\ basicMessages' = basicMessages
          /\ basicResult' = [NoBasicResult EXCEPT !.op = "deleteById",
                                                  !.status = "error", !.id = id,
                                                  !.error = ErrRecordNotFound]
  /\ UNCHANGED issuerVars

NextBasic ==
  \/ \E content \in MessageContents : CreateMessage(content)
  \/ SendOutbound
  \/ \E id \in 1..MaxMessages : GetById(id)
  \/ \E id \in 1..MaxMessages : DeleteById(id)

SpecBasic == Init /\ [][NextBasic]_vars

\* ------------------------------------------------------------------------
\* getIssuerMetadata
\* ------------------------------------------------------------------------
ErrMetadataNotFound == "CredoError: Authorization server metadata not found for issuer"

\* issuer urls of external authorization servers
ExternalServers == {"as1", "as2", "as3"}

\* issuerRecord.authorizationServerConfigs: undefined or a list of servers
AuthorizationServerConfigs ==
  {[defined |-> FALSE, servers |-> <<>>]}
    \cup {[defined |-> TRUE, servers |-> servers] :
            servers \in UNION {[1..n -> ExternalServers] : n \in 0..MaxServers}}

\* The call sites of getIssuerMetadata in the service, lines 104, 173, 417, 452 and
\* 622: none passes the third argument. A host calls the public method as it likes
MetadataCallers ==
  {"createCredentialOffer", "createCredentialResponse", "createNonce", "verifyNonce",
   "getSignedCredentials", "host"}

MetadataFlags(caller) == IF caller = "host" THEN {"absent", "false", "true"} ELSE {"absent"}

\* the servers fetched whatever the flag
ServersToFetchAlways(flag, authorizationServerConfigs) ==
  authorizationServerConfigs.servers

\* Lines 363-364: fetchExternalAuthorizationServerMetadata (false by default)
\* && issuerRecord.authorizationServerConfigs
ServersToFetch(flag, authorizationServerConfigs) ==
  IF flag = "true" /\ authorizationServerConfigs.defined
  THEN authorizationServerConfigs.servers
  ELSE <<>>

\* Lines 375-382: the authorization_servers of the credential issuer metadata,
\* urls only; <<>> for undefined
AuthorizationServerUrls(issuerUrl, authorizationServerConfigs) ==
  IF authorizationServerConfigs.defined /\ Len(authorizationServerConfigs.servers) > 0
  THEN [k \in 1..Len(authorizationServerConfigs.servers) |->
          <<"url", authorizationServerConfigs.servers[k]>>] \o <<<<"url", issuerUrl>>>>
  ELSE <<>>

\* Lines 353-413. found is the set of servers of which the oauth2 client finds
\* the metadata, drawn when a server is fetched
GetIssuerMetadata ==
  \E issuerId \in DOMAIN issuers, caller \in MetadataCallers,
     authorizationServerConfigs \in AuthorizationServerConfigs :
  \E flag \in MetadataFlags(caller) :
    LET issuerUrl == IssuerUrl(issuerId)
        servers == ServersToFetch(flag, authorizationServerConfigs)
        founds == IF servers = <<>> THEN {{}} ELSE SUBSET Elements(servers)
        started == [NoMetadataCall EXCEPT
                      !.caller = caller, !.flag = flag,
                      !.authorizationServerConfigs = authorizationServerConfigs,
                      !.fetched = servers]
    IN \E found \in founds :
         /\ metadataCall' =
              IF \E k \in 1..Len(servers) : servers[k] \notin found
              THEN [started EXCEPT !.status = "error", !.error = ErrMetadataNotFound]
              ELSE [started EXCEPT
                      !.status = "ok",
                      !.authorization_servers =
                        AuthorizationServerUrls(issuerUrl, authorizationServerConfigs),
                      !.authorizationServers =
                        <<<<"metadata", issuerUrl>>>>
                          \o [k \in 1..Len(servers) |-> <<"metadata", servers[k]>>]]
         /\ UNCHANGED <<issuers, sessions, events, now, issuedLog, offerResult, call,
                        result, basicVars>>

SpecMetadata == Init /\ [][GetIssuerMetadata]_vars

TypeOK ==
  /\ now \in 0..MaxTime
  /\ \A sid \in 1..Len(sessions) : sid \in SessionSlots
  /\ Len(events) <= MaxEvents
  /\ \A p \in Procs : call[p].pc \in {"idle", "earlyUpdate", "earlyEmit", "proofs",
                                      "mapper", "responseNonce", "finalUpdate", "finalEmit"}


\* ------------------------------------------------------------------------
\* Properties
\* ------------------------------------------------------------------------
SessionIds == 1..Len(sessions)

Count(arr, x) == Cardinality({k \in 1..Len(arr) : arr[k] = x})

\* p is inside createCredentialResponse, after the early transition and before
\* the issuance is recorded
AfterEarlyTransition(p) == call[p].pc \in {"proofs", "mapper", "responseNonce", "finalUpdate"}

\* C1: every element of a session's issuedCredentials is one of the configuration
\* ids of the session's offer, whatever the mapper returns.
C1_IssuedSubsetOfOffer ==
  \A sid \in SessionIds :
    Elements(sessions[sid].issuedCredentials) \subseteq Elements(sessions[sid].offer)

\* C2: with calls executed one after another, no configuration id appears twice in
\* a session's issuedCredentials, persisted or held by a call.
C2_NoDuplicateIssued ==
  /\ \A sid \in SessionIds : NoDuplicates(sessions[sid].issuedCredentials)
  /\ \A p \in Procs : NoDuplicates(call[p].rec.issuedCredentials)

C2_Witness ==
  \E sid \in SessionIds :
    /\ Len(sessions[sid].issuedCredentials) = 2
    /\ result["p1"].status = "ok" /\ result["p1"].sid = sid

\* C3: under concurrent calls on one session no configuration id is returned in
\* more than one successful response and none is recorded twice.
C3_ExactlyOnceConcurrent ==
  \A sid \in SessionIds :
    /\ NoDuplicates(issuedLog[sid])
    /\ NoDuplicates(sessions[sid].issuedCredentials)

\* C4: concurrent calls on one session are serialized: no write to the repository
\* overwrites a record other than the one the writer read or last wrote, and when
\* all calls have returned the persisted issuedCredentials hold exactly the ids of
\* the successful responses, with the state that the last of them computes.
C4_SerializedMutations ==
  /\ \A p \in Procs :
       call[p].pc \in {"earlyUpdate", "finalUpdate"} => sessions[call[p].sid] = call[p].rec
  /\ AllIdle =>
       \A sid \in SessionIds :
         /\ Len(sessions[sid].issuedCredentials) = Len(issuedLog[sid])
         /\ \A id \in ConfigIds :
              Count(sessions[sid].issuedCredentials, id) = Count(issuedLog[sid], id)

\* C5 as stated: every updateState made by createCredentialResponse moves the
\* session to a strictly later state.
C5_StateStrictlyAdvances ==
  \A p \in Procs :
    call[p].pc \in {"earlyEmit", "finalEmit"} =>
      StateRank(call[p].rec.state) > StateRank(call[p].previousState)

\* C5 amended: with calls executed one after another, the final updateState moves
\* the session from CredentialRequestReceived to a strictly later state; the early
\* updateState sets CredentialRequestReceived from one of the four accepted states,
\* which is strictly later for OfferUriRetrieved and AccessTokenCreated only.
C5_FinalAdvancesEarlyResets ==
  \A p \in Procs :
    /\ call[p].pc = "earlyEmit" =>
         /\ call[p].rec.state = CredentialRequestReceived
         /\ call[p].previousState \in
              {OfferUriRetrieved, AccessTokenCreated, CredentialRequestReceived,
               CredentialsPartiallyIssued}
         /\ call[p].previousState \in {OfferUriRetrieved, AccessTokenCreated} =>
              StateRank(call[p].rec.state) > StateRank(call[p].previousState)
    /\ call[p].pc = "finalEmit" =>
         /\ call[p].previousState = CredentialRequestReceived
         /\ call[p].rec.state \in {CredentialsPartiallyIssued, Completed}
         /\ StateRank(call[p].rec.state) > StateRank(call[p].previousState)

C5_Witness ==
  \E p \in Procs :
    /\ call[p].pc = "earlyEmit"
    /\ call[p].previousState = CredentialsPartiallyIssued

\* C6: a call on a session in OfferCreated, Completed or Error fails with the
\* illegal-state error at once: nothing is persisted, no event is emitted, no
\* nonce is minted, the mapper is not invoked.
C6_IllegalStateRejectedFirst ==
  [][\A p \in Procs, sid \in SessionIds :
       ( /\ call[p].pc = "idle"
         /\ result'[p] # result[p]
         /\ result'[p].sid = sid
         /\ sessions[sid].state \notin
              {OfferUriRetrieved, AccessTokenCreated, CredentialRequestReceived,
               CredentialsPartiallyIssued} )
       => /\ result'[p].status = "error"
          /\ result'[p].error = ErrIllegalSessionState
          /\ result'[p].cNonce = NoNonce
          /\ result'[p].mintedN = 0
          /\ ~result'[p].mapperInvoked
          /\ result'[p].signedN = 0
          /\ call'[p].pc = "idle"
          /\ sessions' = sessions
          /\ events' = events
          /\ issuedLog' = issuedLog]_vars

C6_Witness ==
  \E p \in Procs :
    /\ result[p].error = ErrIllegalSessionState
    /\ sessions[result[p].sid].state = Completed

\* C7: when createCredentialResponse has recorded an issuance, the state is
\* Completed exactly if every offered id is in issuedCredentials, and
\* CredentialsPartiallyIssued otherwise.
C7_CompletedIffAllIssued ==
  \A p \in Procs :
    call[p].pc = "finalEmit" =>
      LET s == sessions[call[p].sid]
          allIssued == Elements(s.offer) \subseteq Elements(s.issuedCredentials)
      IN /\ s.state = Completed <=> allIssued
         /\ s.state = CredentialsPartiallyIssued <=> ~allIssued

\* C8: issuedCredentials is append-only: recording an issuance appends the id the
\* mapper chose and keeps the earlier entries, every other step (so every failing
\* call) leaves it as it is; on the offer <<c1, c2>> issuing c1 gives <<c1>> with
\* CredentialsPartiallyIssued and then c2 gives <<c1, c2>> with Completed.
C8_IssuedAppendOnly ==
  [][\A sid \in SessionIds :
       LET before == sessions[sid].issuedCredentials
           after == sessions'[sid].issuedCredentials
       IN /\ \/ after = before
             \/ \E p \in Procs :
                  /\ call[p].pc = "finalUpdate" /\ call'[p].pc = "finalEmit"
                  /\ call[p].sid = sid
                  /\ after = Append(before, call[p].signed.credentialConfigurationId)
                  /\ (sessions[sid].offer = <<"c1", "c2">> /\ after = <<"c1">>)
                       => sessions'[sid].state = CredentialsPartiallyIssued
                  /\ (sessions[sid].offer = <<"c1", "c2">> /\ after = <<"c1", "c2">>)
                       => sessions'[sid].state = Completed
          /\ \A p \in Procs :
               (result'[p].status = "error" /\ result[p].status = "running"
                  /\ call[p].sid = sid)
               => after = call[p].rec.issuedCredentials]_vars

C8_Witness ==
  \E sid \in SessionIds :
    /\ sessions[sid].offer = <<"c1", "c2">>
    /\ sessions[sid].issuedCredentials = <<"c1", "c2">>
    /\ sessions[sid].state = Completed
    /\ result["p1"].status = "ok"

\* C9: once a request has passed parsing with at least one proof, the session is
\* persisted in CredentialRequestReceived and the state-changed event is out before
\* the first proof is looked at, and a failure of proof validation, matching, the
\* mapper checks or signing leaves the persisted state CredentialRequestReceived.
C9_EarlyTransitionStays ==
  [][\A p \in Procs :
       /\ AfterEarlyTransition(p) =>
            /\ sessions[call[p].sid].state = CredentialRequestReceived
            /\ \E k \in 1..Len(events) :
                 /\ events[k].sid = call[p].sid
                 /\ events[k].state = CredentialRequestReceived
                 /\ \A j \in (k + 1)..Len(events) : events[j].sid # call[p].sid
       /\ (call[p].pc \in {"proofs", "mapper"} /\ result'[p].status = "error")
            => /\ sessions'[call[p].sid].state = CredentialRequestReceived
               /\ result'[p].nProofs >= 1]_vars

C9_Witness ==
  \E p \in Procs :
    /\ result[p].error \in {ErrInvalidNonce, ErrCredentialRequestDenied, ErrSigner}
    /\ sessions[result[p].sid].state = CredentialRequestReceived
    /\ Len(sessions[result[p].sid].issuedCredentials) = 1

\* C10: when the mapper returns a number of payloads other than the number of
\* holder bindings the call fails with the count error, nothing is signed, and the
\* session stays as the early transition left it.
C10_CountMismatchRejected ==
  [][\A p \in Procs :
       ( /\ call[p].pc = "mapper"
         /\ call'[p].pc # "mapper"
         /\ result'[p].payloadN # Len(call[p].proofSigners) )
       => /\ result'[p].status = "error"
          /\ result'[p].error = ErrMapperCount
          /\ result'[p].signedN = 0
          /\ call'[p].pc = "idle"
          /\ sessions' = sessions
          /\ sessions[call[p].sid].state = CredentialRequestReceived
          /\ sessions[call[p].sid].issuedCredentials = call[p].rec.issuedCredentials]_vars

C10_Witness ==
  \E p \in Procs :
    /\ result[p].error = ErrMapperCount
    /\ result[p].nProofs = 2
    /\ result[p].payloadN = 1
    /\ sessions[result[p].sid].state = CredentialRequestReceived

\* The call of p has returned with an error after the mapper answered
FailedOnMapperAnswer(p) ==
  /\ call[p].pc = "idle"
  /\ result[p].status = "error"
  /\ result[p].mapperInvoked
  /\ result[p].credentialConfigurationId # ""

\* C11: when the id chosen by the mapper is already in issuedCredentials, the call
\* fails with an error that no count mismatch produces, nothing is signed and
\* issuedCredentials is unchanged. The error of a count mismatch is the CredoError
\* whose message names the payload count and a different holder-binding count.
C11_AlreadyIssuedDistinguishable ==
  \A p \in SeqProcs :
    (/\ FailedOnMapperAnswer(p)
     /\ Includes(sessions[result[p].sid].issuedCredentials,
                 result[p].credentialConfigurationId))
    => /\ ~(result[p].error = ErrMapperCount /\ result[p].payloadN # result[p].nProofs)
       /\ result[p].signedN = 0
       /\ sessions[result[p].sid].issuedCredentials = issuedLog[result[p].sid]

\* The offered configuration ids of rec that are not in its issuedCredentials and
\* whose configuration has the format and type of requestFormat
UnissuedMatching(rec, requestFormat) ==
  {id \in Elements(rec.offer) \ Elements(rec.issuedCredentials) :
     /\ CredentialConfigurationsSupported[id].format = requestFormat.format
     /\ CredentialConfigurationsSupported[id].type = requestFormat.type}

\* C12: a request whose proofs are valid and whose format matches none of the
\* offered and unissued configurations is rejected with CredentialRequestDenied
\* (and only such a request is); the mapper is not invoked, nothing is signed and
\* the persisted session is unchanged.
C12_DeniedWithoutMatch ==
  [][\A p \in SeqProcs :
       (/\ call[p].pc = "proofs"
        /\ result'[p].requestFormat # NoRequestFormat)
       => LET none == UnissuedMatching(sessions[call[p].sid], result'[p].requestFormat) = {}
          IN /\ none <=> result'[p].error = ErrCredentialRequestDenied
             /\ none => /\ result'[p].status = "error"
                        /\ ~result'[p].mapperInvoked
                        /\ result'[p].payloadN = 0 /\ result'[p].signedN = 0
                        /\ sessions' = sessions
                        /\ call'[p].pc = "idle"]_vars

\* a request for the format of a configuration that has been issued already, the
\* only offered one of that format, was denied
C12_Witness ==
  \E p \in SeqProcs :
    /\ result[p].error = ErrCredentialRequestDenied
    /\ result[p].requestFormat =
         [format |-> CredentialConfigurationsSupported["c1"].format,
          type |-> CredentialConfigurationsSupported["c1"].type]
    /\ sessions[result[p].sid].offer = <<"c1", "c2">>
    /\ sessions[result[p].sid].issuedCredentials = <<"c1">>

\* The step examines a proof of the call of p whose token verifies and which
\* carries a nonce claim
ExaminesNonce(p) ==
  /\ call[p].pc = "proofs"
  /\ result'[p] # result[p]
  /\ result'[p].error # ErrProofVerification
  /\ result'[p].proofNonce # NoNonce

\* C13 as stated: a request of two proofs with differing nonce claims is answered
\* with InconsistentNonce whatever the validity of either nonce. For the first
\* proof of a batch this says that its nonce is never rejected as invalid, since
\* the second proof, whose nonce may differ, has not been compared yet.
C13_InconsistentWhateverValidity ==
  [][\A p \in SeqProcs :
       (ExaminesNonce(p) /\ call[p].nProofs >= 2 /\ call[p].idx = 1)
       => result'[p].error # ErrInvalidNonce]_vars

\* C13 amended: a proof after the first whose nonce claim differs from the nonce of
\* the first proof ends the call with InconsistentNonce and a nonce minted at that
\* moment, whether or not either nonce verifies; a proof that is not rejected so
\* carries the nonce of the first proof; the first proof's nonce is verified on
\* its own, and rejected with InvalidNonce when it does not verify.
C13_InconsistentAfterFirst ==
  [][\A p \in SeqProcs :
       ExaminesNonce(p)
       => IF call[p].idx >= 2
          THEN IF result'[p].proofNonce # call[p].previousNonce
               THEN /\ result'[p].status = "error"
                    /\ result'[p].error = ErrInconsistentNonce
                    /\ result'[p].cNonce = CreateNonce(call[p].issuer, now)
                    /\ result'[p].mintedN = result[p].mintedN + 1
                    /\ call'[p].pc = "idle"
               ELSE result'[p].error # ErrInconsistentNonce
          ELSE /\ result'[p].error # ErrInconsistentNonce
               /\ ~VerifyNonce(call[p].issuer, result'[p].proofNonce, now)
                    => result'[p].error = ErrInvalidNonce]_vars

\* a second proof carrying a nonce that verifies, but not the nonce of the first
\* proof, was rejected
C13_Witness ==
  \E p \in SeqProcs :
    /\ result[p].error = ErrInconsistentNonce
    /\ result[p].nProofs = 2
    /\ result[p].cNonce # NoNonce
    /\ VerifyNonce(issuers[sessions[result[p].sid].issuerId], result[p].proofNonce, now)

\* The errors that answer a missing or unusable proof nonce
ProofNonceErrors ==
  {ErrMissingProof, ErrMissingNonceInProof, ErrInconsistentNonce, ErrInvalidNonce}

\* The issuer record the call of p works with in this step: the one loaded at
\* line 171
IssuerOfCall(p) ==
  IF call[p].pc = "idle" THEN issuers[sessions[result'[p].sid].issuerId]
  ELSE call[p].issuer

\* C14: a call that fails with MissingProof, MissingNonceInProof, InconsistentNonce
\* or InvalidNonce returns exactly one nonce, minted in the failing step itself
\* (it expires cNonceExpiresInSeconds from then) together with that interval, and
\* leaves the session in a state that admits another credential request.
C14_ProofErrorsCarryFreshNonce ==
  [][\A p \in SeqProcs :
       (/\ result'[p] # result[p]
        /\ result'[p].status = "error"
        /\ result'[p].error \in ProofNonceErrors)
       => /\ result'[p].cNonce = CreateNonce(IssuerOfCall(p), now)
          /\ result'[p].cNonce.exp = now + CNonceExpiresInSeconds
          /\ result'[p].cNonceExpiresInSeconds = CNonceExpiresInSeconds
          /\ result'[p].mintedN = 1
          /\ VerifyNonce(IssuerOfCall(p), result'[p].cNonce, now)
          /\ sessions'[result'[p].sid].state \in CredentialResponseAllowedStates]_vars

\* a proof without nonce claim was answered, after the clock had advanced, with a
\* nonce that expires later than every nonce minted before
C14_Witness ==
  \E p \in SeqProcs :
    /\ result[p].error = ErrMissingNonceInProof
    /\ now = MaxTime
    /\ result[p].cNonce.exp = MaxTime + CNonceExpiresInSeconds

C16_OtherIssuersNonceRejected ==
  [][\A p \in SeqProcs :
       (/\ ExaminesNonce(p)
        /\ result'[p].proofNonce.iss # IssuerUrl(call[p].issuer.issuerId))
       => /\ result'[p].status = "error"
          /\ result'[p].error \in {ErrInvalidNonce, ErrInconsistentNonce}
          /\ call'[p].pc = "idle"]_vars

\* an unexpired nonce minted for i2 with the key that i1 uses was rejected in a
\* request served by i1
C16_Witness ==
  \E p \in SeqProcs :
    /\ result[p].error = ErrInvalidNonce
    /\ sessions[result[p].sid].issuerId = "i1"
    /\ result[p].proofNonce.iss = IssuerUrl("i2")
    /\ result[p].proofNonce.sig = issuers["i1"].accessTokenPublicKeyFingerprint
    /\ result[p].proofNonce.typ = CNonceTyp
    /\ now <= result[p].proofNonce.exp

\* The call of p loaded its issuer record after the last rotation of that issuer
StartedAfterRotation(p) ==
  call[p].issuer.accessTokenPublicKeyFingerprint =
    issuers[call[p].issuer.issuerId].accessTokenPublicKeyFingerprint

\* C17: in a credential request that starts after a rotation, a first proof whose
\* nonce is signed with a key the issuer record no longer holds is rejected with
\* InvalidNonce, expired or not; one whose nonce createNonce has minted since the
\* rotation, and which has not expired, is not rejected for its nonce.
C17_RotationInvalidatesNonces ==
  [][\A p \in SeqProcs :
       (ExaminesNonce(p) /\ call[p].idx = 1 /\ StartedAfterRotation(p))
       => LET issuer == issuers[call[p].issuer.issuerId]
              nonce == result'[p].proofNonce
          IN /\ nonce.sig # issuer.accessTokenPublicKeyFingerprint
                  => /\ result'[p].status = "error"
                     /\ result'[p].error = ErrInvalidNonce
             /\ (/\ \E t \in issuer.updatedAt..now : nonce = CreateNonce(issuer, t)
                 /\ now <= nonce.exp)
                  => result'[p].error \notin ProofNonceErrors]_vars

\* an unexpired nonce that i1 minted under k1 was rejected after the rotation of
\* i1 to a later key
C17_Witness ==
  \E p \in SeqProcs :
    /\ result[p].error = ErrInvalidNonce
    /\ result[p].proofNonce = CreateNonce(IssuerRecord("i1", "k1", 0),
                                          result[p].proofNonce.exp - CNonceExpiresInSeconds)
    /\ now <= result[p].proofNonce.exp
    /\ issuers["i1"].accessTokenPublicKeyFingerprint # "k1"

\* ------------------------------------------------------------------------
\* createCredentialOffer: failures and the created session
\* ------------------------------------------------------------------------
\* A step in which createCredentialOffer returned to the host
OfferReturned == offerResult' # offerResult /\ offerResult'.status # "none"

HasDuplicateIds(ids) == \E j, k \in 1..Len(ids) : j # k /\ ids[j] = ids[k]

NothingSavedOrEmitted == sessions' = sessions /\ events' = events

\* C18 as stated: an offer whose list of configuration ids contains the same id
\* twice fails with DuplicateOfferedCredential, nothing saved, nothing emitted
C18_DuplicateAlwaysDuplicateError ==
  [][(OfferReturned /\ HasDuplicateIds(offerResult'.offeredCredentials))
       => /\ offerResult'.error = ErrDuplicateOffered
          /\ NothingSavedOrEmitted]_vars

\* C18: an offer whose list of configuration ids contains the same id twice
\* fails, with no session record saved and no state-changed event emitted; the
\* failure is DuplicateOfferedCredential when a pre-authorized-code config or an
\* authorization-code config is given, and MissingGrantConfig when neither is
C18_DuplicateFails ==
  [][(OfferReturned /\ HasDuplicateIds(offerResult'.offeredCredentials))
       => /\ offerResult'.error =
               (IF \/ offerResult'.preAuthorizedCodeFlowConfig
                   \/ offerResult'.authorizationCodeFlowConfig
                THEN ErrDuplicateOffered ELSE ErrMissingGrantConfig)
          /\ NothingSavedOrEmitted]_vars

C18_Witness ==
  /\ offerResult.error = ErrDuplicateOffered
  /\ HasDuplicateIds(offerResult.offeredCredentials)
  /\ sessions = <<>> /\ events = <<>>
\* C19: an offer with neither a pre-authorized-code config nor an
\* authorization-code config fails with MissingGrantConfig, nothing saved and
\* nothing emitted; an offer with at least one of the two and unique ids is
\* created
C19_GrantConfigRequired ==
  [][OfferReturned
       => IF /\ ~offerResult'.preAuthorizedCodeFlowConfig
             /\ ~offerResult'.authorizationCodeFlowConfig
          THEN /\ offerResult'.error = ErrMissingGrantConfig
               /\ NothingSavedOrEmitted
          ELSE ~HasDuplicateIds(offerResult'.offeredCredentials)
                 => /\ offerResult'.status = "created"
                    /\ Len(sessions') = Len(sessions) + 1]_vars

C19_Witness ==
  /\ offerResult.error = ErrMissingGrantConfig
  /\ ~HasDuplicateIds(offerResult.offeredCredentials)
  /\ sessions = <<>> /\ events = <<>>

\* C20: a successful offer saves exactly one new session, in state OfferCreated,
\* with empty issuedCredentials and an offer of exactly the offered configuration
\* ids, and emits exactly one state-changed event, for that session, with
\* previousState = null
C20_OfferCreatesOneSession ==
  [][(OfferReturned /\ offerResult'.status = "created")
       => LET sid == Len(sessions) + 1
          IN /\ Len(sessions') = sid
             /\ SubSeq(sessions', 1, Len(sessions)) = sessions
             /\ sessions'[sid].state = OfferCreated
             /\ sessions'[sid].issuedCredentials = <<>>
             /\ sessions'[sid].offer = offerResult'.offeredCredentials
             /\ Len(events') = Len(events) + 1
             /\ SubSeq(events', 1, Len(events)) = events
             /\ events'[Len(events')] =
                  [sid |-> sid, state |-> OfferCreated, issuedCredentials |-> <<>>,
                   previousState |-> NoState]]_vars

C20_Witness ==
  /\ offerResult.status = "created"
  /\ Len(offerResult.offeredCredentials) = MaxOffered
  /\ Len(sessions) = 1 /\ sessions[1].state = OfferCreated
  /\ sessions[1].offer = offerResult.offeredCredentials
  /\ Len(events) = 1 /\ events[1].previousState = NoState
\* ------------------------------------------------------------------------
\* updateState: the record written and the event emitted
\* ------------------------------------------------------------------------
\* p is between the write of updateState and its emitStateChangedEvent
UpdatePending(p) == call[p].pc \in {"earlyEmit", "finalEmit"}

\* p writes the record in this step
UpdatePersists(p) ==
  call[p].pc \in {"earlyUpdate", "finalUpdate"} /\ call'[p].pc \in {"earlyEmit", "finalEmit"}

\* p emits the event of its updateState in this step
UpdateEmits(p) == UpdatePending(p) /\ call'[p].pc # call[p].pc

\* C21: every updateState persists the session with the new state and then emits
\* exactly one state-changed event, whose previousState is the state the session
\* had immediately before the call and whose snapshot has the new state; the
\* events of a session come in the order of its persisted updates.
C21_UpdatePersistsThenEmits ==
  [][\A p \in Procs :
       /\ UpdatePersists(p) =>
            /\ sessions'[call[p].sid] = call'[p].rec
            /\ call'[p].previousState = sessions[call[p].sid].state
            /\ events' = events
       /\ UpdateEmits(p) =>
            /\ events' = Append(events,
                           [sid |-> call[p].sid, state |-> call[p].rec.state,
                            issuedCredentials |-> call[p].rec.issuedCredentials,
                            previousState |-> call[p].previousState])
            /\ sessions' = sessions
            \* an update persisted after that of p has not emitted before it, and
            \* none persisted before it is still to emit
            /\ sessions[call[p].sid].state = call[p].rec.state
            /\ \A q \in Procs \ {p} :
                 (UpdatePending(q) /\ call[q].sid = call[p].sid)
                   => sessions[call[q].sid] = call[q].rec]_vars
\* ------------------------------------------------------------------------
\* The credential response
\* ------------------------------------------------------------------------
\* C22 as stated: a successful response has the singular credential exactly when
\* the request carried one proof and the plural credentials exactly when it
\* carried several, never both and never neither
C22_SingularIffOneProof ==
  \A p \in Procs :
    result[p].status = "ok" =>
      /\ result[p].hasCredential <=> result[p].nProofs = 1
      /\ result[p].hasCredentials <=> result[p].nProofs > 1
      /\ result[p].hasCredential # result[p].hasCredentials

\* C22: a successful response has the singular credential exactly when the
\* request carried its proof in the singular proof field and the plural
\* credentials, one per proof, exactly when it carried the proofs field, a
\* proofs field of one proof included; never both and never neither
C22_SingularIffProofField ==
  [][\A p \in Procs :
       (call[p].pc = "finalEmit" /\ result'[p].status = "ok")
       => /\ result'[p].hasCredential <=> call[p].shape = "proof"
          /\ result'[p].hasCredentials <=> call[p].shape = "proofs"
          /\ result'[p].hasCredential # result'[p].hasCredentials
          /\ result'[p].nCredentials = result'[p].nProofs
          /\ result'[p].hasCredential => result'[p].nProofs = 1]_vars

C22_Witness ==
  \E p \in Procs :
    /\ result[p].status = "ok"
    /\ result[p].hasCredentials /\ ~result[p].hasCredential
    /\ result[p].nProofs = 1 /\ result[p].nCredentials = 1
\* C23: a successful response carries the nonce minted in its own call after the
\* signing, and the issuance is recorded only once that nonce is minted: when
\* minting it fails the persisted state and issuedCredentials are as the early
\* transition left them, and nothing more is emitted
C23_NonceMintedBeforeRecording ==
  [][\A p \in Procs :
       LET c == call[p]
       IN /\ (c.pc = "responseNonce" /\ call'[p].pc = "finalUpdate")
               => /\ call'[p].cNonce = CreateNonce(c.issuer, now)
                  /\ result[p].signedN = result[p].nProofs
                  /\ result[p].signedN = c.signed.credentials
                  /\ sessions' = sessions
          /\ (c.pc = "responseNonce" /\ result'[p].status = "error")
               => /\ result'[p].error = ErrCreateNonce
                  /\ sessions' = sessions /\ events' = events
                  /\ sessions[c.sid].state = CredentialRequestReceived
                  /\ sessions[c.sid].issuedCredentials = c.rec.issuedCredentials
                  /\ ~Includes(sessions[c.sid].issuedCredentials,
                               c.signed.credentialConfigurationId)
          /\ (c.pc = "finalUpdate" /\ sessions' # sessions)
               => c.cNonce # NoNonce
          /\ (c.pc = "finalEmit" /\ result'[p].status = "ok")
               => /\ result'[p].cNonce = c.cNonce
                  /\ c.cNonce # NoNonce
                  /\ result'[p].mintedN = 1]_vars

C23_Witness ==
  \E p \in Procs :
    /\ result[p].error = ErrCreateNonce
    /\ result[p].signedN = 2
    /\ sessions[result[p].sid].state = CredentialRequestReceived
    /\ sessions[result[p].sid].issuedCredentials = <<"c1">>
\* ------------------------------------------------------------------------
\* Basic messages: an undeliverable message
\* ------------------------------------------------------------------------
\* C24: when the delivery fails sendMessage fails with MessageSendingError, whose
\* context holds the message and the record created for it; the record was stored
\* before the send attempt and getById finds it after the failure; after
\* deleteById every later getById of that id fails with RecordNotFoundError
C24_UndeliverableKeepsRecord ==
  [][/\ (basicResult.status = "sending" /\ basicResult'.status = "error")
          => /\ basicResult'.error = ErrMessageSending
             /\ basicResult'.message = basicResult.message
             /\ basicResult'.associatedRecord = basicResult.id
             /\ StoredById(basicResult.id)
             /\ basicMessages[basicResult.id].content = basicResult.message
             /\ basicMessages' = basicMessages
     /\ (basicResult'.op = "getById" /\ basicResult' # basicResult)
          => IF StoredById(basicResult'.id)
             THEN /\ basicResult'.status = "ok"
                  /\ basicResult'.record = basicMessages[basicResult'.id]
             ELSE /\ basicResult'.status = "error"
                  /\ basicResult'.error = ErrRecordNotFound
     /\ (basicResult'.op = "deleteById" /\ basicResult' # basicResult
           /\ basicResult'.status = "ok")
          => /\ basicResult'.id \in 1..Len(basicMessages')
             /\ ~basicMessages'[basicResult'.id].stored
     /\ \A id \in 1..Len(basicMessages) :
          /\ id \in 1..Len(basicMessages')
          /\ ~basicMessages[id].stored => ~basicMessages'[id].stored
          /\ (basicMessages[id].stored /\ ~basicMessages'[id].stored)
               => (basicResult'.op = "deleteById" /\ basicResult'.id = id)]_vars

\* The record of an undeliverable message has been deleted and is looked up again
C24_Witness ==
  /\ basicResult.op = "getById"
  /\ basicResult.error = ErrRecordNotFound
  /\ basicResult.id \in 1..Len(basicMessages)
  /\ basicMessages[basicResult.id].content = "Hello undeliverable"
  /\ ~basicMessages[basicResult.id].stored

\* ------------------------------------------------------------------------
\* C25
\* ------------------------------------------------------------------------
\* the call of p returns from its first step on a request that reached the
\* proofs check (accepted state, no identifier, a format) and holds no proofs
ReturnsOnNoProofs(p) ==
  /\ call[p].pc = "idle"
  /\ result'[p] # result[p]
  /\ result'[p].sid \in 1..Len(sessions)
  /\ sessions[result'[p].sid].state \in CredentialResponseAllowedStates
  /\ ~result'[p].credentialIdentifier
  /\ result'[p].format = "supported"
  /\ result'[p].nProofs = 0

\* C25: a credential request without proofs fails with the missing proof error
\* before the transition to CredentialRequestReceived: the stored sessions (state
\* and issuedCredentials) and the events are as before, the call is over, the
\* mapper was not asked and nothing was signed; one nonce was minted, the one
\* the error carries.
C25_NoProofsOnlyMintsNonce ==
  [][\A p \in Procs :
       ReturnsOnNoProofs(p) =>
         /\ result'[p].status = "error"
         /\ result'[p].error = ErrMissingProof
         /\ sessions' = sessions
         /\ events' = events
         /\ issuedLog' = issuedLog
         /\ call'[p] = IdleCall
         /\ ~result'[p].mapperInvoked
         /\ result'[p].signedN = 0
         /\ result'[p].mintedN = 1
         /\ result'[p].cNonce =
              CreateNonce(issuers[sessions[result'[p].sid].issuerId], now)
         /\ result'[p].cNonceExpiresInSeconds = CNonceExpiresInSeconds]_vars

\* a request without proofs was refused on a session that is still in
\* AccessTokenCreated and has issued nothing
C25_Witness ==
  \E p \in Procs :
    /\ result[p].error = ErrMissingProof
    /\ result[p].nProofs = 0
    /\ result[p].cNonce # NoNonce
    /\ sessions[result[p].sid].state = AccessTokenCreated
    /\ sessions[result[p].sid].issuedCredentials = <<>>

\* ------------------------------------------------------------------------
\* C26
\* ------------------------------------------------------------------------
\* C26: a request with credential_identifier fails with the addressing error,
\* also when its format is missing; a request without credential_identifier
\* and without a format fails with the format error; either way, with or
\* without proofs, no nonce is minted or returned, no event is emitted, no
\* session is written and the call is over.
C26_AddressingThenFormat ==
  [][\A p \in Procs :
       (/\ call[p].pc = "idle"
        /\ result'[p] # result[p]
        /\ result'[p].sid \in 1..Len(sessions)
        /\ sessions[result'[p].sid].state \in CredentialResponseAllowedStates
        /\ (result'[p].credentialIdentifier \/ result'[p].format = NoFormat))
       => /\ result'[p].status = "error"
          /\ result'[p].error =
               IF result'[p].credentialIdentifier THEN ErrCredentialIdentifier
               ELSE ErrUnsupportedCredentialFormat
          /\ result'[p].cNonce = NoNonce
          /\ result'[p].mintedN = 0
          /\ events' = events
          /\ sessions' = sessions
          /\ call'[p] = IdleCall]_vars

\* both checks apply to a request that holds no proofs: it got the addressing
\* error and no nonce
C26_Witness ==
  \E p \in Procs :
    /\ result[p].credentialIdentifier
    /\ result[p].format = NoFormat
    /\ result[p].nProofs = 0
    /\ result[p].error = ErrCredentialIdentifier
    /\ result[p].cNonce = NoNonce

\* ------------------------------------------------------------------------
\* C27
\* ------------------------------------------------------------------------
\* C27: when a verified proof carries a nonce, the same as the proofs before
\* it, the nonce is accepted if and only if its iss claim is the URL of the
\* issuer, its typ header is the fixed tag, its signature is by the key of
\* the fingerprint in the issuer record the call loaded and it has not
\* expired; when it is not accepted the call ends with the one InvalidNonce
\* error, whichever of the four failed.
C27_NonceAcceptedIffFourHold ==
  [][\A p \in Procs :
       (/\ call[p].pc = "proofs"
        /\ <<call'[p], result'[p]>> # <<call[p], result[p]>>
        /\ result'[p].proofNonce # NoNonce
        /\ result'[p].error \notin {ErrProofVerification, ErrInconsistentNonce})
       => LET nonce == result'[p].proofNonce
              issuer == call[p].issuer
              allFour == /\ nonce.iss = IssuerUrl(issuer.issuerId)
                         /\ nonce.typ = CNonceTyp
                         /\ nonce.sig = issuer.accessTokenPublicKeyFingerprint
                         /\ nonce.exp >= now
          IN /\ allFour <=> result'[p].error # ErrInvalidNonce
             /\ allFour <=> VerifyNonce(issuer, nonce, now)
             /\ ~allFour => /\ result'[p].status = "error"
                            /\ call'[p] = IdleCall]_vars

\* a token that fails the typ comparison only was refused as an invalid nonce
C27_Witness ==
  \E p \in Procs :
    /\ result[p].error = ErrInvalidNonce
    /\ result[p].proofNonce.typ # CNonceTyp
    /\ result[p].proofNonce.iss = IssuerUrl(sessions[result[p].sid].issuerId)
    /\ result[p].proofNonce.sig =
         issuers[sessions[result[p].sid].issuerId].accessTokenPublicKeyFingerprint
    /\ result[p].proofNonce.exp >= now

\* ------------------------------------------------------------------------
\* C28
\* ------------------------------------------------------------------------
\* C28: with calls executed one after another, from the early transition to the
\* final one the stored session is in CredentialRequestReceived with the
\* issuedCredentials the call loaded; no step of the call in between writes a
\* session, so a call that fails there leaves exactly that; and the early
\* transition changes the state of the stored session only, hence nothing
\* when the session is in CredentialRequestReceived already.
C28_NoWriteBetweenTransitions ==
  [][\A p \in Procs :
       LET sid == call[p].sid
       IN /\ call[p].pc \in {"proofs", "mapper", "responseNonce", "finalUpdate"}
               => /\ sessions[sid].state = CredentialRequestReceived
                  /\ sessions[sid].issuedCredentials = call[p].rec.issuedCredentials
          /\ (call[p].pc \in {"proofs", "mapper", "responseNonce"}
                /\ call'[p] # call[p])
               => /\ sessions' = sessions
                  /\ call'[p].pc # "idle" =>
                       call'[p].rec.issuedCredentials = call[p].rec.issuedCredentials
          /\ (call[p].pc = "earlyUpdate" /\ call'[p] # call[p])
               => /\ sessions' = [sessions EXCEPT ![sid].state = CredentialRequestReceived]
                  /\ sessions[sid].state = CredentialRequestReceived
                       => sessions' = sessions]_vars

\* the early transition is repeated on a session that an earlier, failed
\* request left in CredentialRequestReceived
C28_Witness ==
  \E p \in Procs :
    /\ call[p].pc = "earlyEmit"
    /\ call[p].previousState = CredentialRequestReceived
    /\ sessions[call[p].sid].state = CredentialRequestReceived
    /\ sessions[call[p].sid].issuedCredentials = call[p].rec.issuedCredentials

\* ------------------------------------------------------------------------
\* C29
\* ------------------------------------------------------------------------
\* C29: for a request in the SdJwtVc or the MsoMdoc format, when the answer of
\* the mapper is checked and signed, a payload is signed only when every
\* payload declares the type of the request; when one of them declares
\* another (the declared types are drawn where the code compares them), the
\* call fails with the vct error for SdJwtVc and the doctype error for
\* MsoMdoc, nothing is signed and no session is written.
C29_TypeMismatchSignsNothing ==
  [][\A p \in Procs :
       (/\ call[p].pc = "mapper"
        /\ call'[p] # call[p]
        /\ call[p].format.format \in {FormatSdJwtVc, FormatMsoMdoc})
       => LET mismatch == \E k \in 1..Len(result'[p].payloads) :
                            result'[p].payloads[k] # call[p].format.type
          IN /\ result'[p].signedN > 0 => ~mismatch
             /\ mismatch =>
                  /\ result'[p].status = "error"
                  /\ result'[p].error =
                       IF call[p].format.format = FormatSdJwtVc
                       THEN ErrVctMismatch ELSE ErrDoctypeMismatch
                  /\ result'[p].signedN = 0
                  /\ call'[p] = IdleCall
                  /\ sessions' = sessions]_vars

\* a batch of two payloads that declare two types, so one of them the type
\* of the request at most, was refused for its doctype with nothing signed
C29_Witness ==
  \E p \in Procs :
    /\ result[p].error = ErrDoctypeMismatch
    /\ Len(result[p].payloads) = 2
    /\ result[p].payloads[1] # result[p].payloads[2]
    /\ result[p].signedN = 0

\* ------------------------------------------------------------------------
\* C30
\* ------------------------------------------------------------------------
\* C30: a request with a proof signed by a method other than jwk or did, whose
\* proofs all passed the nonce checks, fails with the holder binding error,
\* whether or not its format matches an unissued configuration.
C30_BindingBeforeMatching ==
  [][\A p \in Procs :
       (/\ call[p].pc = "proofs"
        /\ call'[p] # call[p]
        /\ result'[p].unsupportedSigner)
       => result'[p].error = ErrHolderBindingMethod]_vars

\* C30 amended: the configurations are matched before the holder bindings are
\* resolved, and both before the mapper is called: a request whose proofs all
\* passed the nonce checks is denied when its format matches no unissued
\* configuration, whatever the methods of its signers; when it matches one,
\* a signer of a method other than jwk or did fails it with the holder binding
\* error; and the mapper is called only with one holder binding per proof.
C30_MatchingBeforeBinding ==
  [][\A p \in Procs :
       (/\ call[p].pc = "proofs"
        /\ call'[p] # call[p]
        /\ result'[p].requestFormat # NoRequestFormat)
       => LET denied == MatchingCredentialConfigurationIds(
                          NotIssuedCredentialConfigurationIds(call[p].rec),
                          result'[p].requestFormat) = {}
          IN /\ denied => /\ result'[p].error = ErrCredentialRequestDenied
                          /\ call'[p] = IdleCall
             /\ (~denied /\ result'[p].unsupportedSigner)
                  => /\ result'[p].error = ErrHolderBindingMethod
                     /\ call'[p] = IdleCall
             /\ result'[p].status = "error" => ~result'[p].mapperInvoked
             /\ result'[p].mapperInvoked
                  => /\ ~denied /\ ~result'[p].unsupportedSigner
                     /\ call'[p].pc = "mapper"
                     /\ Len(call'[p].proofSigners) = call[p].nProofs]_vars

\* a request with an x5c or custom signer was denied for its format
C30_Witness ==
  \E p \in Procs :
    /\ result[p].error = ErrCredentialRequestDenied
    /\ result[p].unsupportedSigner
    /\ ~result[p].mapperInvoked

\* ------------------------------------------------------------------------
\* C31
\* ------------------------------------------------------------------------
\* C31: once the issuer record holds a new fingerprint, no proof is accepted
\* whose nonce is signed with another key, also in a call that loaded the
\* issuer before the rotation; and every nonce a call returns is signed with
\* the key of the fingerprint the issuer record holds when it is minted.
C31_RotationSafeInFlight ==
  [][\A p \in SeqProcs :
       LET current == issuers[call[p].issuer.issuerId].accessTokenPublicKeyFingerprint
       IN /\ (ExaminesNonce(p) /\ result'[p].proofNonce.sig # current)
               => result'[p].error \in {ErrInconsistentNonce, ErrInvalidNonce}
          /\ (call[p].pc # "idle" /\ result'[p].cNonce # result[p].cNonce
                /\ result'[p].cNonce # NoNonce)
               => result'[p].cNonce.sig = current]_vars

C33_ProofsInSubmissionOrder ==
  [][\A p \in SeqProcs :
       (call[p].pc = "proofs" /\ <<call'[p], result'[p]>> # <<call[p], result[p]>>)
       => LET c == call[p]
              r == result'[p]
              nonce == r.proofNonce
              consistent == c.idx = 1 \/ nonce = c.previousNonce
          IN /\ c.idx \in 1..c.nProofs
             /\ Len(c.proofSigners) = c.idx - 1
             /\ r.error # ErrProofVerification =>
                  /\ nonce = NoNonce => r.error = ErrMissingNonceInProof
                  /\ (nonce # NoNonce /\ ~consistent)
                       => r.error = ErrInconsistentNonce
                  /\ (nonce # NoNonce /\ consistent
                        /\ ~VerifyNonce(c.issuer, nonce, now))
                       => r.error = ErrInvalidNonce
             /\ r.status = "error" => call'[p] = IdleCall
             /\ (r.status # "error" /\ c.idx < c.nProofs)
                  => /\ call'[p].pc = "proofs"
                     /\ call'[p].idx = c.idx + 1
                     /\ \E method \in SignerMethods :
                          call'[p].proofSigners = Append(c.proofSigners, method)
             /\ call'[p].pc = "mapper"
                  => /\ c.idx = c.nProofs
                     /\ Len(call'[p].proofSigners) = c.nProofs]_vars

\* the first proof of two has passed with its did signer kept, the second is
\* to be examined
C33_Witness ==
  \E p \in SeqProcs :
    /\ call[p].pc = "proofs"
    /\ call[p].idx = 2
    /\ call[p].proofSigners = <<"did">>
    /\ result[p].proofNonce = call[p].previousNonce

\* ------------------------------------------------------------------------
\* C34
\* ------------------------------------------------------------------------
\* C34: a successful response holds as many encoded credentials as the request
\* carried proofs, the mapper having returned that many payloads, and the
\* credential at each position is the signed payload of that position, the
\* position of the holder binding of the proof.
C34_OneCredentialPerProof ==
  \A p \in Procs :
    result[p].status = "ok"
    => /\ Len(result[p].credentials) = result[p].nProofs
       /\ result[p].payloadN = result[p].nProofs
       /\ result[p].signedN = result[p].nProofs
       /\ \A k \in 1..Len(result[p].credentials) : result[p].credentials[k] = k

\* a request of two proofs was answered with two credentials
C34_Witness ==
  \E p \in Procs :
    /\ result[p].status = "ok"
    /\ result[p].nProofs = 2
    /\ result[p].credentials = <<1, 2>>

\* ------------------------------------------------------------------------
\* C35
\* ------------------------------------------------------------------------
\* C35: a call that ends because the token of a proof does not verify returns
\* an error carrying a nonce minted at that moment, in force for
\* CNonceExpiresInSeconds.
C35_MalformedProofCarriesNonce ==
  [][\A p \in SeqProcs :
       (call[p].pc = "proofs" /\ result'[p].error = ErrProofVerification)
       => /\ result'[p].cNonce = CreateNonce(call[p].issuer, now)
          /\ result'[p].cNonceExpiresInSeconds = CNonceExpiresInSeconds
          /\ result'[p].mintedN = result[p].mintedN + 1]_vars

C37_AtMostOneSuccessPerOffered ==
  [][\A sid \in SessionIds :
       LET n == Len(sessions[sid].offer)
       IN /\ Len(issuedLog[sid]) <= n
          /\ (n >= 1 /\ Len(issuedLog[sid]) = n)
               => sessions[sid].state \in {Completed, Error}
          /\ \A p \in SeqProcs :
               (/\ n >= 1
                /\ Len(issuedLog[sid]) = n
                /\ result'[p] # result[p]
                /\ result'[p].sid = sid)
               => /\ result'[p].status = "error"
                  /\ result'[p].error = ErrIllegalSessionState
                  /\ issuedLog' = issuedLog]_vars

\* both ids of an offer of two were issued and a third request was refused
C37_Witness ==
  \E sid \in SessionIds :
    /\ Len(sessions[sid].offer) = 2
    /\ Len(issuedLog[sid]) = 2
    /\ sessions[sid].state = Completed
    /\ result["p1"].sid = sid
    /\ result["p1"].error = ErrIllegalSessionState

\* ------------------------------------------------------------------------
\* C38
\* ------------------------------------------------------------------------
\* C38: with a cooperating wallet and mapper and fair scheduling, a session in
\* an allowed state with n >= 1 offered ids eventually is Completed with n
\* successful responses returned, and it is never Completed with fewer than n
\* ids issued.
C38_EventuallyCompleted ==
  /\ <>(/\ sessions[1].state = Completed
        /\ AllIdle
        /\ Len(issuedLog[1]) = Len(sessions[1].offer))
  /\ [](sessions[1].state = Completed
          => Len(sessions[1].issuedCredentials) = Len(sessions[1].offer))

\* the second of two offered credentials has been returned and the session is
\* Completed
C38_Witness ==
  /\ Len(sessions[1].offer) = 2
  /\ sessions[1].state = Completed
  /\ issuedLog[1] = sessions[1].issuedCredentials
  /\ result["p1"].status = "ok"
  /\ Len(events) = 4

C40_FailedWriteLeavesRecord ==
  [][\A p \in SeqProcs :
       (result'[p] # result[p] /\ result'[p].error = ErrRepositoryUpdate)
       => /\ result'[p].status = "error"
          /\ events' = events
          /\ sessions' = sessions
          /\ result'[p].recordState = call[p].rec.state
          /\ result'[p].recordIssued = call[p].rec.issuedCredentials
          /\ result'[p].recordState = sessions'[result'[p].sid].state
          /\ result'[p].recordIssued = sessions'[result'[p].sid].issuedCredentials]_vars

====
